---------------------------- MODULE Spec2Model ----------------------------
(***************************************************************************)
(* Model of the iCKB limit-order core (ickb/order):                        *)
(*   src/src/entities.ts   Ratio, Info, Relative, Master, Data             *)
(*   src/src/cells.ts      OrderCell, OrderGroup                           *)
(*   src/unnamed/part_000  OrderManager, OrderMatcher                      *)
(*                                                                         *)
(* Amounts are bigint in the source (no wrap-around); the model keeps them *)
(* exact and small.  "undefined" is modelled as the empty sequence <<>>    *)
(* and a defined value x as <<x>>.                                         *)
(***************************************************************************)
EXTENDS Integers, Sequences, FiniteSets, TLC

(***************************************************************************)
(* Bounds of the model.                                                    *)
(***************************************************************************)
\* largest ckbScale / udtScale of a ratio
MaxScale == 2
\* largest ckbMinMatchLog of an Info
MaxLog == 1
\* largest ckbValue / udtValue handed to mint
MaxAmount == 2
\* largest allowance handed to OrderMatcher.match
MaxAllowance == 3
\* largest ckbMiningFee handed to OrderMatcher.from
MaxFee == 1
\* number of transactions sent in one behaviour
MaxTx == 3
\* occupied size in bytes of an order cell (constant for a given schema)
OrderSize == 1

(***************************************************************************)
(* Helpers standing for the language and library primitives.               *)
(***************************************************************************)
\* bigint division truncates toward zero
TruncDiv(a, b) == IF a >= 0 THEN a \div b ELSE -((-a) \div b)

\* ccc.fixedPointFrom(n) for a number n and the default 8 decimals
fixedPointFrom(n) == n * (10 ^ 8)

Some(x) == <<x>>
None == <<>>
IsSome(o) == Len(o) = 1
Get(o) == o[1]

(***************************************************************************)
(* entities.ts: Ratio                                                      *)
(***************************************************************************)
Ratio(c, u) == [ckbScale |-> c, udtScale |-> u]

Ratio_empty == Ratio(0, 0)

Ratio_isEmpty(r) == r.ckbScale = 0 /\ r.udtScale = 0

Ratio_isPopulated(r) == r.ckbScale > 0 /\ r.udtScale > 0

(***************************************************************************)
(* entities.ts: Info                                                       *)
(***************************************************************************)
Info(c2u, u2c, log) ==
    [ckbToUdt |-> c2u, udtToCkb |-> u2c, ckbMinMatchLog |-> log]

\* validate without its last test, on the round trip of a dual ratio
Info_validate_noRoundTrip(i) ==
    IF i.ckbMinMatchLog < 0 \/ i.ckbMinMatchLog > 64 THEN FALSE
    ELSE IF Ratio_isEmpty(i.ckbToUdt) THEN Ratio_isPopulated(i.udtToCkb)
    ELSE IF Ratio_isEmpty(i.udtToCkb) THEN Ratio_isPopulated(i.ckbToUdt)
    ELSE Ratio_isPopulated(i.ckbToUdt) /\ Ratio_isPopulated(i.udtToCkb)

\* TRUE iff Info.validate returns without throwing
Info_validate(i) ==
    IF i.ckbMinMatchLog < 0 \/ i.ckbMinMatchLog > 64 THEN FALSE
    ELSE IF Ratio_isEmpty(i.ckbToUdt) THEN Ratio_isPopulated(i.udtToCkb)
    ELSE IF Ratio_isEmpty(i.udtToCkb) THEN Ratio_isPopulated(i.ckbToUdt)
    ELSE IF ~Ratio_isPopulated(i.ckbToUdt) \/ ~Ratio_isPopulated(i.udtToCkb)
         THEN FALSE
    ELSE ~(i.ckbToUdt.ckbScale * i.udtToCkb.udtScale
             < i.ckbToUdt.udtScale * i.udtToCkb.ckbScale)

\* the logarithm itself as the minimum match
Info_getCkbMinMatch_log(i) == i.ckbMinMatchLog

Info_getCkbMinMatch(i) == 2 ^ i.ckbMinMatchLog

Info_isCkb2Udt(i) == Ratio_isPopulated(i.ckbToUdt)

Info_isUdt2Ckb(i) == Ratio_isPopulated(i.udtToCkb)

Info_isDualRatio(i) == Info_isCkb2Udt(i) /\ Info_isUdt2Ckb(i)

\* mol.Entity eq: equality of the encoded bytes, i.e. of all five fields
Info_eq(i, j) ==
    /\ i.ckbToUdt.ckbScale = j.ckbToUdt.ckbScale
    /\ i.ckbToUdt.udtScale = j.ckbToUdt.udtScale
    /\ i.udtToCkb.ckbScale = j.udtToCkb.ckbScale
    /\ i.udtToCkb.udtScale = j.udtToCkb.udtScale
    /\ i.ckbMinMatchLog = j.ckbMinMatchLog

(***************************************************************************)
(* entities.ts: Master reference and Data                                  *)
(***************************************************************************)
OutPoint(h, i) == [txHash |-> h, index |-> i]

\* outpoints compared by their transaction only
OutPoint_eq_txOnly(a, b) == a.txHash = b.txHash

OutPoint_eq(a, b) == a.txHash = b.txHash /\ a.index = b.index

\* Relative.create(distance): 32 zero bytes of padding (modelled as 0)
Relative_create(d) ==
    [type |-> "relative", padding |-> 0, distance |-> d,
     outPoint |-> OutPoint(0, 0)]

Master_absolute(op) ==
    [type |-> "absolute", padding |-> 0, distance |-> 0, outPoint |-> op]

\* TRUE iff masterValidate returns without throwing
masterValidate(m) ==
    IF m.type = "relative" THEN m.padding = 0
    ELSE IF m.type = "absolute" THEN m.outPoint.index >= 0
    ELSE FALSE

Data(udtAmount, master, info) ==
    [udtAmount |-> udtAmount, master |-> master, info |-> info]

\* TRUE iff Data.validate returns without throwing
Data_validate(d) ==
    /\ ~(d.udtAmount < 0)
    /\ masterValidate(d.master)
    /\ Info_validate(d.info)

Data_isMint(d) == d.master.type = "relative"

Data_getMaster(d, current) ==
    IF d.master.type = "relative"
    THEN OutPoint(current.txHash, current.index + d.master.distance)
    ELSE d.master.outPoint

\* Data.toBytes: the packed struct, field by field.  The master union is a
\* tag followed by 36 bytes: padding and distance, or txHash and index.
Data_toBytes(d) ==
    << d.udtAmount,
       IF d.master.type = "relative" THEN 0 ELSE 1,
       IF d.master.type = "relative" THEN d.master.padding
                                     ELSE d.master.outPoint.txHash,
       IF d.master.type = "relative" THEN d.master.distance
                                     ELSE d.master.outPoint.index,
       d.info.ckbToUdt.ckbScale, d.info.ckbToUdt.udtScale,
       d.info.udtToCkb.ckbScale, d.info.udtToCkb.udtScale,
       d.info.ckbMinMatchLog >>

\* Data.decode: the inverse layout
Data_decode(b) ==
    Data(b[1],
         IF b[2] = 0
         THEN [type |-> "relative", padding |-> b[3], distance |-> b[4],
               outPoint |-> OutPoint(0, 0)]
         ELSE Master_absolute(OutPoint(b[3], b[4])),
         Info(Ratio(b[5], b[6]), Ratio(b[7], b[8]), b[9]))


(***************************************************************************)
(* Cells.  A cell is [outPoint, capacity, lock, type, outputData,          *)
(* occupiedSize]; scripts are opaque names, "none" is an absent type.      *)
(***************************************************************************)
Cell(op, capacity, lock, type, outputData, occupiedSize) ==
    [outPoint |-> op, capacity |-> capacity, lock |-> lock, type |-> type,
     outputData |-> outputData, occupiedSize |-> occupiedSize]

\* ccc.Cell.capacityFree: the capacity above the occupied one
Cell_capacityFree(cell) == cell.capacity - fixedPointFrom(cell.occupiedSize)

Script_eq(a, b) == a = b

(***************************************************************************)
(* cells.ts: OrderCell                                                     *)
(***************************************************************************)
\* TRUE iff OrderCell.mustFrom throws on the cell (decode or validate fails)
OrderCell_mustFromThrows(cell) ==
    \/ Len(cell.outputData) # 9
    \/ ~Data_validate(Data_decode(cell.outputData))

OrderCell_mustFrom(cell) ==
    LET data == Data_decode(cell.outputData)
        udtAmount == data.udtAmount
        ckbUnoccupied == Cell_capacityFree(cell)
        ckbOccupied == cell.capacity - Cell_capacityFree(cell)
        ckbToUdt == data.info.ckbToUdt
        udtToCkb == data.info.udtToCkb
        isCkb2Udt == Info_isCkb2Udt(data.info)
        isUdt2Ckb == Info_isUdt2Ckb(data.info)
        ckb2UdtValue ==
            IF isCkb2Udt
            THEN ckbUnoccupied * ckbToUdt.ckbScale + udtAmount * ckbToUdt.udtScale
            ELSE 0
        udt2CkbValue ==
            IF isUdt2Ckb
            THEN ckbUnoccupied * udtToCkb.ckbScale + udtAmount * udtToCkb.udtScale
            ELSE 0
        absTotal ==
            IF ckb2UdtValue = 0 THEN udt2CkbValue
            ELSE IF udt2CkbValue = 0 THEN ckb2UdtValue
            ELSE (ckb2UdtValue * udtToCkb.ckbScale * udtToCkb.udtScale
                  + udt2CkbValue * ckbToUdt.ckbScale * ckbToUdt.udtScale) \div 2
        absProgress ==
            IF Info_isDualRatio(data.info) THEN absTotal
            ELSE IF isCkb2Udt THEN udtAmount * ckbToUdt.udtScale
            ELSE ckbUnoccupied * udtToCkb.ckbScale
    IN  [cell |-> cell, data |-> data, ckbOccupied |-> ckbOccupied,
         ckbUnoccupied |-> ckbUnoccupied, absTotal |-> absTotal,
         absProgress |-> absProgress]

OrderCell_tryFrom(cell) ==
    IF OrderCell_mustFromThrows(cell) THEN None
    ELSE Some(OrderCell_mustFrom(cell))

OrderCell_isCkb2UdtMatchable(o) ==
    Info_isCkb2Udt(o.data.info) /\ o.ckbUnoccupied > 0

OrderCell_isUdt2CkbMatchable(o) ==
    Info_isUdt2Ckb(o.data.info) /\ o.data.udtAmount > 0

\* matchability tested in the ckb->udt direction only
OrderCell_isMatchable_ckbOnly(o) == OrderCell_isCkb2UdtMatchable(o)

OrderCell_isMatchable(o) ==
    OrderCell_isCkb2UdtMatchable(o) \/ OrderCell_isUdt2CkbMatchable(o)

OrderCell_getMaster(o) == Data_getMaster(o.data, o.cell.outPoint)

OrderCell_getAmounts(o) ==
    [ckbIn |-> o.cell.capacity, udtIn |-> o.data.udtAmount]

\* validate without its last test, on absProgress
OrderCell_validate_noProgress(this, descendant) ==
    IF OutPoint_eq(this.cell.outPoint, descendant.cell.outPoint) THEN ""
    ELSE IF ~Script_eq(this.cell.lock, descendant.cell.lock)
         THEN "Order script different"
    ELSE IF this.cell.type = "none"
            \/ descendant.cell.type = "none"
            \/ ~Script_eq(descendant.cell.type, this.cell.type)
         THEN "UDT type is different"
    ELSE IF ~OutPoint_eq(Data_getMaster(descendant.data,
                                        descendant.cell.outPoint),
                         Data_getMaster(this.data, this.cell.outPoint))
         THEN "Master is different"
    ELSE IF this.absTotal > descendant.absTotal
         THEN "Total value is lower than the original one"
    ELSE ""

\* OrderCell.validate: the message of the Error thrown, "" when it returns
OrderCell_validate(this, descendant) ==
    IF OutPoint_eq(this.cell.outPoint, descendant.cell.outPoint) THEN ""
    ELSE IF ~Script_eq(this.cell.lock, descendant.cell.lock)
         THEN "Order script different"
    ELSE IF this.cell.type = "none"
            \/ descendant.cell.type = "none"
            \/ ~Script_eq(descendant.cell.type, this.cell.type)
         THEN "UDT type is different"
    ELSE IF ~OutPoint_eq(OrderCell_getMaster(descendant),
                         OrderCell_getMaster(this))
         THEN "Master is different"
    ELSE IF ~Info_eq(this.data.info, this.data.info)
         THEN "Info is different"
    ELSE IF this.absTotal > descendant.absTotal
         THEN "Total value is lower than the original one"
    ELSE IF this.absProgress > descendant.absProgress
         THEN "Progress is lower than the original one"
    ELSE ""

OrderCell_isValid(this, descendant) == OrderCell_validate(this, descendant) = ""

\* the loop body keeping the first valid descendant, whatever its progress
resolveStep_first(this, best, descendant) ==
    IF OrderCell_validate(this, descendant) # "" THEN best
    ELSE IF ~IsSome(best) THEN Some(descendant)
    ELSE best

\* the loop body with the tie broken the other way
resolveStep_tieFlipped(this, best, descendant) ==
    IF OrderCell_validate(this, descendant) # "" THEN best
    ELSE IF \/ ~IsSome(best)
            \/ Get(best).absProgress < descendant.absProgress
            \/ /\ Get(best).absProgress = descendant.absProgress
               /\ Data_isMint(Get(best).data)
         THEN Some(descendant)
    ELSE best

\* one iteration of the loop of OrderCell.resolve: the new value of best
resolveStep(this, best, descendant) ==
    IF ~OrderCell_isValid(this, descendant) THEN best
    ELSE IF \/ ~IsSome(best)
            \/ Get(best).absProgress < descendant.absProgress
            \/ /\ Get(best).absProgress = descendant.absProgress
               /\ ~Data_isMint(Get(best).data)
         THEN Some(descendant)
    ELSE best

RECURSIVE resolveLoop(_, _, _, _)
resolveLoop(this, descendants, i, best) ==
    IF i > Len(descendants) THEN best
    ELSE resolveLoop(this, descendants, i + 1,
                     resolveStep(this, best, descendants[i]))

OrderCell_resolve(this, descendants) ==
    resolveLoop(this, descendants, 1, None)

(***************************************************************************)
(* part_000: OrderMatcher                                                  *)
(***************************************************************************)
\* the division without the rounding to the upper value
nonDecreasing_truncated(aScale, bScale, aIn, bIn, aOut) ==
    TruncDiv(aScale * (aIn - aOut) + bScale * bIn, bScale)

\* cells.ts getNonDecreasing
getNonDecreasing(aScale, bScale, aIn, bIn, aOut) ==
    TruncDiv(aScale * (aIn - aOut) + bScale * (bIn + 1) - 1, bScale)

OrderMatcher_nonDecreasing(aScale, bScale, aIn, bIn, aOut) ==
    TruncDiv(aScale * (aIn - aOut) + bScale * (bIn + 1) - 1, bScale)

\* realRatio is a double in the source; the model keeps the exact quotient
\* num / den, which orders the same way for the small operands used here
realRatio_isNonPositive(r) ==
    IF r.den = 0 THEN r.num < 0 ELSE r.num * r.den <= 0

\* TRUE iff OrderMatcher.from throws: in the ckb->udt branch bMinMatch is
\* divided by aScale before aScale is tested, and a bigint division by 0n
\* throws a RangeError
OrderMatcher_fromThrows(order, isCkb2Udt, ckbMiningFee) ==
    isCkb2Udt /\ order.data.info.ckbToUdt.ckbScale = 0

\* the direction-dependent locals of OrderMatcher.from (bMinMatch is 0
\* where the source has already thrown)
OrderMatcher_fromLocals(order, isCkb2Udt, ckbMiningFee) ==
    IF isCkb2Udt
    THEN [aScale |-> order.data.info.ckbToUdt.ckbScale,
          bScale |-> order.data.info.ckbToUdt.udtScale,
          aIn |-> OrderCell_getAmounts(order).ckbIn,
          bIn |-> OrderCell_getAmounts(order).udtIn,
          bMinMatch |->
              IF order.data.info.ckbToUdt.ckbScale = 0 THEN 0
              ELSE TruncDiv(Info_getCkbMinMatch(order.data.info)
                              * order.data.info.ckbToUdt.udtScale
                              + order.data.info.ckbToUdt.ckbScale - 1,
                            order.data.info.ckbToUdt.ckbScale),
          aMin |-> order.cell.capacity - order.ckbUnoccupied,
          aMiningFee |-> ckbMiningFee,
          bMiningFee |-> 0]
    ELSE [aScale |-> order.data.info.ckbToUdt.udtScale,
          bScale |-> order.data.info.ckbToUdt.ckbScale,
          aIn |-> OrderCell_getAmounts(order).udtIn,
          bIn |-> OrderCell_getAmounts(order).ckbIn,
          bMinMatch |-> Info_getCkbMinMatch(order.data.info),
          aMin |-> 0,
          aMiningFee |-> 0,
          bMiningFee |-> ckbMiningFee]

\* a from that leaves bMinMatch above bMaxMatch
OrderMatcher_from_unclamped(order, isCkb2Udt, ckbMiningFee) ==
    LET l == OrderMatcher_fromLocals(order, isCkb2Udt, ckbMiningFee)
    IN  IF OrderMatcher_fromThrows(order, isCkb2Udt, ckbMiningFee) THEN None
        ELSE IF l.aIn <= l.aMin + l.aMiningFee \/ l.aScale <= 0 \/ l.bScale <= 0
        THEN None
        ELSE
          LET bMaxOut == OrderMatcher_nonDecreasing(l.aScale, l.bScale,
                                                    l.aIn, l.bIn, l.aMin)
              bMaxMatch == bMaxOut - l.bIn
              realRatio == [num |-> l.aIn - l.aMin - l.aMiningFee,
                            den |-> bMaxMatch + l.bMiningFee]
          IN  IF realRatio_isNonPositive(realRatio) THEN None
              ELSE Some([order |-> order, isCkb2Udt |-> isCkb2Udt,
                         aScale |-> l.aScale, bScale |-> l.bScale,
                         aIn |-> l.aIn, bIn |-> l.bIn, aMin |-> l.aMin,
                         bMinMatch |-> l.bMinMatch, bMaxMatch |-> bMaxMatch,
                         bMaxOut |-> bMaxOut, realRatio |-> realRatio])

\* OrderMatcher.from: None for undefined (and where it throws)
OrderMatcher_from(order, isCkb2Udt, ckbMiningFee) ==
    LET l == OrderMatcher_fromLocals(order, isCkb2Udt, ckbMiningFee)
    IN  IF OrderMatcher_fromThrows(order, isCkb2Udt, ckbMiningFee) THEN None
        ELSE IF l.aIn <= l.aMin + l.aMiningFee \/ l.aScale <= 0 \/ l.bScale <= 0
        THEN None
        ELSE
          LET bMaxOut == OrderMatcher_nonDecreasing(l.aScale, l.bScale,
                                                    l.aIn, l.bIn, l.aMin)
              bMaxMatch == bMaxOut - l.bIn
              bMinMatch == IF l.bMinMatch > bMaxMatch THEN bMaxMatch
                           ELSE l.bMinMatch
              realRatio == [num |-> l.aIn - l.aMin - l.aMiningFee,
                            den |-> bMaxMatch + l.bMiningFee]
          IN  IF realRatio_isNonPositive(realRatio) THEN None
              ELSE Some([order |-> order, isCkb2Udt |-> isCkb2Udt,
                         aScale |-> l.aScale, bScale |-> l.bScale,
                         aIn |-> l.aIn, bIn |-> l.bIn, aMin |-> l.aMin,
                         bMinMatch |-> bMinMatch, bMaxMatch |-> bMaxMatch,
                         bMaxOut |-> bMaxOut, realRatio |-> realRatio])

EmptyMatch == [ckbDelta |-> 0, udtDelta |-> 0, partials |-> <<>>]

\* a create that reports the two outputs under each other's name
OrderMatcher_create_swapped(this, aOut, bOut) ==
    IF this.isCkb2Udt
    THEN [ckbDelta |-> this.aIn - aOut,
          udtDelta |-> this.bIn - bOut,
          partials |-> << [order |-> this.order, ckbOut |-> bOut,
                           udtOut |-> aOut] >>]
    ELSE [ckbDelta |-> this.bIn - bOut,
          udtDelta |-> this.aIn - aOut,
          partials |-> << [order |-> this.order, ckbOut |-> aOut,
                           udtOut |-> bOut] >>]

OrderMatcher_create(this, aOut, bOut) ==
    IF this.isCkb2Udt
    THEN [ckbDelta |-> this.aIn - aOut,
          udtDelta |-> this.bIn - bOut,
          partials |-> << [order |-> this.order, ckbOut |-> aOut,
                           udtOut |-> bOut] >>]
    ELSE [ckbDelta |-> this.bIn - bOut,
          udtDelta |-> this.aIn - aOut,
          partials |-> << [order |-> this.order, ckbOut |-> bOut,
                           udtOut |-> aOut] >>]

\* a match that takes the full-fill branch only above bMaxMatch
OrderMatcher_match_strict(this, bAllowance) ==
    IF bAllowance < this.bMinMatch THEN EmptyMatch
    ELSE IF bAllowance > this.bMaxMatch
         THEN OrderMatcher_create(this, this.aMin, this.bMaxOut)
    ELSE LET bOut == this.bIn + bAllowance
             aOut == OrderMatcher_nonDecreasing(this.bScale, this.aScale,
                                                this.bIn, this.aIn, bOut)
         IN  OrderMatcher_create(this, aOut, bOut)

OrderMatcher_match(this, bAllowance) ==
    IF bAllowance < this.bMinMatch THEN EmptyMatch
    ELSE IF bAllowance >= this.bMaxMatch
         THEN OrderMatcher_create(this, this.aMin, this.bMaxOut)
    ELSE LET bOut == this.bIn + bAllowance
             aOut == OrderMatcher_nonDecreasing(this.bScale, this.aScale,
                                                this.bIn, this.aIn, bOut)
         IN  OrderMatcher_create(this, aOut, bOut)


(***************************************************************************)
(* part_000: OrderManager.  The manager's scripts are fixed names.         *)
(***************************************************************************)
script == "order"

udtScript == "udt"

OrderManager_isOrder(cell) ==
    Script_eq(cell.lock, script)
      /\ cell.type # "none" /\ Script_eq(cell.type, udtScript)

OrderManager_isMaster(cell) ==
    cell.type # "none" /\ Script_eq(cell.type, script)

\* The transaction under construction: [hash, inputs, outputs].  An output
\* is a cell without its outPoint, which it gets when the transaction is
\* sent: (hash, position), positions counted from 0.
Tx(hash, inputs, outputs) ==
    [hash |-> hash, inputs |-> inputs, outputs |-> outputs]

Output(capacity, lock, type, outputData) ==
    [capacity |-> capacity, lock |-> lock, type |-> type,
     outputData |-> outputData, occupiedSize |-> OrderSize]

\* tx.addOutput(output, data): a capacity left out (0) is set to the
\* occupied capacity; the output is appended
Tx_addOutput(tx, capacity, lock, type, outputData) ==
    Tx(tx.hash, tx.inputs,
       Append(tx.outputs,
              Output(IF capacity = 0 THEN fixedPointFrom(OrderSize)
                     ELSE capacity,
                     lock, type, outputData)))

Tx_addInput(tx, cell) == Tx(tx.hash, Append(tx.inputs, cell), tx.outputs)

\* the cell that output number position (from 0) of tx is once tx is sent
Tx_cellAt(tx, position) ==
    LET o == tx.outputs[position + 1]
    IN  Cell(OutPoint(tx.hash, position), o.capacity, o.lock, o.type,
             o.outputData, o.occupiedSize)

\* a mint that appends the master cell first and the order cell after it
OrderManager_mint_masterFirst(tx, lock, info, amounts) ==
    LET data == Data(amounts.udtValue, Relative_create(1), info)
        tx0 == Tx_addOutput(tx, 0, lock, script, <<>>)
        position == Len(tx0.outputs)
        tx1 == Tx_addOutput(tx0, 0, script, udtScript, Data_toBytes(data))
    IN  Tx(tx1.hash, tx1.inputs,
           [tx1.outputs EXCEPT ![position + 1].capacity =
                                  @ + amounts.ckbValue])

\* OrderManager.mint: the transaction with the order and its master appended
OrderManager_mint(tx, lock, info, amounts) ==
    LET data == Data(amounts.udtValue, Relative_create(1), info)
        position == Len(tx.outputs)
        tx1 == Tx_addOutput(tx, 0, script, udtScript, Data_toBytes(data))
        tx2 == Tx(tx1.hash, tx1.inputs,
                  [tx1.outputs EXCEPT ![position + 1].capacity =
                                         @ + amounts.ckbValue])
    IN  Tx_addOutput(tx2, 0, lock, script, <<>>)

\* a successor that keeps the consumed order's master reference as it is
addMatchData_sameReference(o, udtOut) ==
    Data(udtOut, o.data.master, o.data.info)

\* the OrderData addMatch writes for the successor of order o
addMatchData(o, udtOut) ==
    Data(udtOut, Master_absolute(OrderCell_getMaster(o)), o.data.info)

RECURSIVE addMatchLoop(_, _, _)
addMatchLoop(tx, partials, k) ==
    IF k > Len(partials) THEN tx
    ELSE LET p == partials[k]
         IN  addMatchLoop(
                 Tx_addOutput(Tx_addInput(tx, p.order.cell),
                              p.ckbOut, script, udtScript,
                              Data_toBytes(addMatchData(p.order, p.udtOut))),
                 partials, k + 1)

\* OrderManager.addMatch
OrderManager_addMatch(tx, match) ==
    IF Len(match.partials) = 0 THEN tx
    ELSE addMatchLoop(tx, match.partials, 1)

\* OrderManager.match
OrderManager_match(order, isCkb2Udt, allowance) ==
    LET mm == OrderMatcher_from(order, isCkb2Udt, 0)
    IN  IF IsSome(mm) THEN OrderMatcher_match(Get(mm), allowance)
        ELSE EmptyMatch

(***************************************************************************)
(* part_000: OrderManager.sequentialMatcher.  The generator is             *)
(* deterministic and takes no input while running, so it is modelled by    *)
(* the sequence of the matches it yields.                                  *)
(***************************************************************************)
\* TRUE iff building the matchers throws (OrderMatcher.from on some order)
sequentialMatcher_throws(orderPool, isCkb2Udt, ckbMiningFee) ==
    \E k \in 1..Len(orderPool) :
        OrderMatcher_fromThrows(orderPool[k], isCkb2Udt, ckbMiningFee)

\* a.realRatio < b.realRatio, both denominators being positive
realRatio_less(a, b) == a.num * b.den < b.num * a.den

\* sort((a, b) => b.realRatio - a.realRatio): decreasing and stable, so a
\* matcher goes right before the first one with a smaller realRatio
RECURSIVE sortInsert(_, _, _)
sortInsert(sorted, m, k) ==
    IF k > Len(sorted) THEN Append(sorted, m)
    ELSE IF realRatio_less(sorted[k].realRatio, m.realRatio)
         THEN SubSeq(sorted, 1, k - 1) \o <<m>> \o SubSeq(sorted, k, Len(sorted))
    ELSE sortInsert(sorted, m, k + 1)

RECURSIVE sortMatchers(_, _, _)
sortMatchers(ms, k, sorted) ==
    IF k > Len(ms) THEN sorted
    ELSE sortMatchers(ms, k + 1, sortInsert(sorted, ms[k], 1))

\* orderPool.map(from).filter(defined).sort(by realRatio, decreasing)
RECURSIVE poolMatchers(_, _, _, _)
poolMatchers(orderPool, isCkb2Udt, ckbMiningFee, k) ==
    IF k > Len(orderPool) THEN <<>>
    ELSE OrderMatcher_from(orderPool[k], isCkb2Udt, ckbMiningFee)
           \o poolMatchers(orderPool, isCkb2Udt, ckbMiningFee, k + 1)

sequentialMatcher_matchers(orderPool, isCkb2Udt, ckbMiningFee) ==
    sortMatchers(poolMatchers(orderPool, isCkb2Udt, ckbMiningFee, 1), 1, <<>>)

\* the fair distribution of maxMatch: N chunks, the first r of q + 1 and
\* the others of q
sequentialMatcher_partition(maxMatch, allowanceStep) ==
    LET N == TruncDiv(maxMatch + allowanceStep - 1, allowanceStep)
    IN  [N |-> N, q |-> TruncDiv(maxMatch, N), r |-> maxMatch % N]

\* every chunk of size q, the remainder dropped
sequentialMatcher_chunk_noRemainder(q, r, i) == q

\* the allowance added at step i of the inner loop
sequentialMatcher_chunk(q, r, i) == IF i < r THEN q + 1 ELSE q

RECURSIVE sequentialMatcher_chunks_stacked(_, _, _, _, _, _, _, _, _)
RECURSIVE sequentialMatcher_chunks(_, _, _, _, _, _, _, _, _)
\* an inner loop that adds each chunk's match to the previous yield
sequentialMatcher_chunks_stacked(matcher, N, q, r, i, allowance, acc, curr, yields) ==
    IF ~(i < N) THEN [yields |-> yields, acc |-> curr]
    ELSE LET a2 == allowance + (IF i < r THEN q + 1 ELSE q)
             m == OrderMatcher_match(matcher, a2)
         IN  IF Len(m.partials) = 0
             THEN [yields |-> yields, acc |-> acc]
             ELSE LET c2 == [ckbDelta |-> curr.ckbDelta + m.ckbDelta,
                             udtDelta |-> curr.udtDelta + m.udtDelta,
                             partials |-> curr.partials \o m.partials]
                  IN  sequentialMatcher_chunks_stacked(matcher, N, q, r, i + 1,
                                                       a2, acc, c2,
                                                       Append(yields, c2))

\* the inner loop over the N chunks of one matcher, from chunk i on:
\* the matches yielded so far and the accumulator left for the next matcher
sequentialMatcher_chunks(matcher, N, q, r, i, allowance, acc, curr, yields) ==
    IF ~(i < N) THEN [yields |-> yields, acc |-> curr]
    ELSE LET a2 == allowance + sequentialMatcher_chunk(q, r, i)
             m == OrderMatcher_match(matcher, a2)
         IN  IF Len(m.partials) = 0
             THEN [yields |-> yields, acc |-> acc]
             ELSE LET c2 == [ckbDelta |-> acc.ckbDelta + m.ckbDelta,
                             udtDelta |-> acc.udtDelta + m.udtDelta,
                             partials |-> acc.partials \o m.partials]
                  IN  sequentialMatcher_chunks(matcher, N, q, r, i + 1, a2,
                                               acc, c2, Append(yields, c2))

RECURSIVE sequentialMatcher_loop_uncommitted(_, _, _, _, _)
RECURSIVE sequentialMatcher_loop(_, _, _, _, _)
\* an outer loop that never commits a matcher's last cumulative match
sequentialMatcher_loop_uncommitted(matchers, allowanceStep, k, acc, yields) ==
    IF k > Len(matchers) THEN yields
    ELSE LET maxMatch == matchers[k].bMaxMatch
             N == TruncDiv(maxMatch + allowanceStep - 1, allowanceStep)
             q == TruncDiv(maxMatch, N)
             r == maxMatch % N
             res == sequentialMatcher_chunks(matchers[k], N, q, r, 0, 0,
                                             acc, acc, yields)
         IN  sequentialMatcher_loop_uncommitted(matchers, allowanceStep, k + 1,
                                                acc, res.yields)

\* the outer loop over the matchers, from matcher k on
sequentialMatcher_loop(matchers, allowanceStep, k, acc, yields) ==
    IF k > Len(matchers) THEN yields
    ELSE LET maxMatch == matchers[k].bMaxMatch
             p == sequentialMatcher_partition(maxMatch, allowanceStep)
             res == sequentialMatcher_chunks(matchers[k], p.N, p.q, p.r, 0, 0,
                                             acc, acc, yields)
         IN  sequentialMatcher_loop(matchers, allowanceStep, k + 1,
                                    res.acc, res.yields)

\* the matches sequentialMatcher yields, in order
OrderManager_sequentialMatcher(orderPool, isCkb2Udt, allowanceStep, ckbMiningFee) ==
    sequentialMatcher_loop(
        sequentialMatcher_matchers(orderPool, isCkb2Udt, ckbMiningFee),
        allowanceStep, 1, EmptyMatch, <<EmptyMatch>>)

(***************************************************************************)
(* BufferedGenerator: a look-ahead buffer over a generator                 *)
(***************************************************************************)
\* new BufferedGenerator(generator, maxSize): the buffer holds the first
\* maxSize values
BufferedGenerator_new(yields, maxSize) ==
    IF Len(yields) <= maxSize
    THEN [buffer |-> yields, generator |-> <<>>]
    ELSE [buffer |-> SubSeq(yields, 1, maxSize),
          generator |-> SubSeq(yields, maxSize + 1, Len(yields))]

\* next(n): n times, drop the first buffered value and pull one more
RECURSIVE BufferedGenerator_next(_, _)
BufferedGenerator_next(bg, n) ==
    IF n <= 0 THEN bg
    ELSE BufferedGenerator_next(
             [buffer |->
                  (IF Len(bg.buffer) = 0 THEN <<>> ELSE Tail(bg.buffer))
                  \o (IF Len(bg.generator) = 0 THEN <<>>
                      ELSE <<Head(bg.generator)>>),
              generator |->
                  IF Len(bg.generator) = 0 THEN <<>> ELSE Tail(bg.generator)],
             n - 1)

(***************************************************************************)
(* part_000: OrderManager.bestMatch                                        *)
(***************************************************************************)
bestMatch_ckbMiningFee(orderSize, feeRate) ==
    TruncDiv((36 + orderSize) * feeRate + 999, 1000)

bestMatch_udtAllowanceStep(ckbAllowanceStep, exchangeRate) ==
    TruncDiv(ckbAllowanceStep * exchangeRate.ckbScale
               + exchangeRate.udtScale - 1,
             exchangeRate.udtScale)

\* the gain best starts with is -1n << 256n, below every gain; the model
\* uses a value below every gain its bounded amounts can produce
bestMatch_gainFloor == -(2 ^ 30)

bestMatch_initial(allowance) ==
    [i |-> -1, j |-> -1, ckbDelta |-> 0, udtDelta |-> 0, partials |-> <<>>,
     ckbAllowance |-> allowance.ckbValue, udtAllowance |-> allowance.udtValue,
     gain |-> bestMatch_gainFloor]

\* a pair taken whenever the CKB budget holds, whatever the UDT budget
bestMatch_feasible_ckbOnly(ckbAllowance, udtAllowance) ==
    ckbAllowance >= 0

\* the budget test of the scoring loop
bestMatch_feasible(ckbAllowance, udtAllowance) ==
    ckbAllowance >= 0 /\ udtAllowance >= 0

\* the body of the two nested scoring loops for the pair (i, j)
bestMatch_score(best, i, j, c2u, u2c, allowance, exchangeRate, ckbMiningFee) ==
    LET ckbDelta == c2u.ckbDelta + u2c.ckbDelta
        udtDelta == c2u.udtDelta + u2c.udtDelta
        partials == c2u.partials \o u2c.partials
        ckbFee == ckbMiningFee * fixedPointFrom(Len(partials))
        ckbAllowance == allowance.ckbValue + ckbDelta - ckbFee
        udtAllowance == allowance.udtValue + udtDelta
        gain == ckbDelta * exchangeRate.ckbScale
                  + udtDelta * exchangeRate.udtScale
    IN  IF bestMatch_feasible(ckbAllowance, udtAllowance) /\ gain > best.gain
        THEN [i |-> i, j |-> j, ckbDelta |-> ckbDelta, udtDelta |-> udtDelta,
              partials |-> partials, ckbAllowance |-> ckbAllowance,
              udtAllowance |-> udtAllowance, gain |-> gain]
        ELSE best

\* the nested loops over both buffers, pair number n on (i outer, j inner)
RECURSIVE bestMatch_scoreLoop(_, _, _, _, _, _, _)
bestMatch_scoreLoop(best, n, c2uBuffer, u2cBuffer, allowance, exchangeRate, ckbMiningFee) ==
    IF n >= Len(c2uBuffer) * Len(u2cBuffer) THEN best
    ELSE LET i == n \div Len(u2cBuffer)
             j == n % Len(u2cBuffer)
         IN  bestMatch_scoreLoop(
                 bestMatch_score(best, i, j, c2uBuffer[i + 1],
                                 u2cBuffer[j + 1], allowance, exchangeRate,
                                 ckbMiningFee),
                 n + 1, c2uBuffer, u2cBuffer, allowance, exchangeRate,
                 ckbMiningFee)

\* a loop that goes on while either chosen index is not zero
bestMatch_continues_either(best) == best.i # 0 \/ best.j # 0

\* the loop condition of bestMatch
bestMatch_continues(best) == best.i # 0 /\ best.j # 0

(***************************************************************************)
(* cells.ts: OrderGroup                                                    *)
(***************************************************************************)
OrderGroup(master, order, origin) ==
    [master |-> master, order |-> order, origin |-> origin]

\* OrderGroup.validate: the message of the Error thrown, "" when it returns
OrderGroup_validate(og) ==
    IF og.master.type = "none"
         \/ ~Script_eq(og.master.type, og.order.cell.lock)
    THEN "Order script different"
    ELSE IF ~OutPoint_eq(OrderCell_getMaster(og.order), og.master.outPoint)
    THEN "Master is different"
    ELSE OrderCell_validate(og.origin, og.order)

OrderGroup_isValid(og) == OrderGroup_validate(og) = ""

OrderGroup_tryFrom(master, order, origin) ==
    IF OrderGroup_isValid(OrderGroup(master, order, origin))
    THEN Some(OrderGroup(master, order, origin))
    ELSE None

(***************************************************************************)
(* part_000: OrderManager.findOrders.  The chain is a sequence of          *)
(* transactions, transaction h at position h; a transaction is the         *)
(* sequence of its outputs, each a cell and whether it is still live.      *)
(***************************************************************************)
\* client.getCell(outPoint): the cell, live or spent, undefined if absent
client_getCell(chain, outPoint) ==
    IF /\ outPoint.txHash \in 1..Len(chain)
       /\ outPoint.index \in 0..(Len(chain[outPoint.txHash]) - 1)
    THEN Some(chain[outPoint.txHash][outPoint.index + 1].cell)
    ELSE None

\* the live cells of the chain in ascending order, from output i of
\* transaction h on
RECURSIVE liveCells(_, _, _)
liveCells(chain, h, i) ==
    IF h > Len(chain) THEN <<>>
    ELSE IF i > Len(chain[h]) THEN liveCells(chain, h + 1, 1)
    ELSE (IF chain[h][i].live THEN <<chain[h][i].cell>> ELSE <<>>)
           \o liveCells(chain, h, i + 1)

\* client.findCellsOnChain with an exact search on the lock script and a
\* filter on the type script
findCellsOnChain_lock(chain, lock, type) ==
    LET Hit(c) == Script_eq(c.lock, lock) /\ c.type # "none"
                    /\ Script_eq(c.type, type)
    IN  SelectSeq(liveCells(chain, 1, 1), Hit)

\* client.findCellsOnChain with an exact search on the type script
findCellsOnChain_type(chain, type) ==
    LET Hit(c) == c.type # "none" /\ Script_eq(c.type, type)
    IN  SelectSeq(liveCells(chain, 1, 1), Hit)

\* findSimpleOrders, from cell k of the scan on
RECURSIVE simpleOrdersFrom(_, _)
simpleOrdersFrom(cells, k) ==
    IF k > Len(cells) THEN <<>>
    ELSE (IF IsSome(OrderCell_tryFrom(cells[k]))
             /\ OrderManager_isOrder(cells[k])
          THEN OrderCell_tryFrom(cells[k]) ELSE <<>>)
           \o simpleOrdersFrom(cells, k + 1)

OrderManager_findSimpleOrders(chain) ==
    simpleOrdersFrom(findCellsOnChain_lock(chain, script, udtScript), 1)

OrderManager_findAllMasters(chain) ==
    SelectSeq(findCellsOnChain_type(chain, script), OrderManager_isMaster)

\* the first loop of findOrigin: downwards from index
RECURSIVE findOrigin_backward(_, _, _)
findOrigin_backward(chain, master, index) ==
    IF index < 0 THEN [returned |-> FALSE, order |-> None]
    ELSE LET cell == client_getCell(chain,
                                    OutPoint(master.txHash, index))
         IN  IF ~IsSome(cell) THEN [returned |-> TRUE, order |-> None]
             ELSE LET o == OrderCell_tryFrom(Get(cell))
                  IN  IF IsSome(o)
                           /\ OutPoint_eq(OrderCell_getMaster(Get(o)), master)
                      THEN [returned |-> TRUE, order |-> o]
                      ELSE findOrigin_backward(chain, master, index - 1)

\* the second loop of findOrigin: upwards from index, until a cell is absent
RECURSIVE findOrigin_forward(_, _, _)
findOrigin_forward(chain, master, index) ==
    LET cell == client_getCell(chain, OutPoint(master.txHash, index))
    IN  IF ~IsSome(cell) THEN None
        ELSE LET o == OrderCell_tryFrom(Get(cell))
             IN  IF IsSome(o)
                      /\ OutPoint_eq(OrderCell_getMaster(Get(o)), master)
                 THEN o
                 ELSE findOrigin_forward(chain, master, index + 1)

OrderManager_findOrigin(chain, master) ==
    LET b == findOrigin_backward(chain, master, master.index - 1)
    IN  IF b.returned THEN b.order
        ELSE findOrigin_forward(chain, master, master.index + 1)

\* the orders findOrders pushes into the raw group of a master cell
rawGroup_orders(simpleOrders, master) ==
    LET Mine(o) == OutPoint_eq(OrderCell_getMaster(o), master.outPoint)
    IN  SelectSeq(simpleOrders, Mine)

\* the last loop of findOrders for one raw group: the group yielded, if any
findOrders_group(chain, master, orders) ==
    IF Len(orders) = 0 THEN None
    ELSE LET origin == OrderManager_findOrigin(
                           chain, OrderCell_getMaster(orders[1]))
         IN  IF ~IsSome(origin) THEN None
             ELSE LET o == OrderCell_resolve(Get(origin), orders)
                  IN  IF ~IsSome(o) THEN None
                      ELSE OrderGroup_tryFrom(master, Get(o), Get(origin))

(***************************************************************************)
(* part_000: findOrders with its origin lookups as concurrent routines.    *)
(* A lookup is suspended at each client.getCell and resumed with the cell. *)
(***************************************************************************)
\* a raw group as the map of findOrders holds it; origin is the number of
\* the lookup whose promise it holds, 0 while it is undefined
rawGroup_new(master) ==
    [master |-> master, origin |-> 0, orders |-> <<>>]

\* a lookup started for every order pushed
rawGroup_needsOrigin_always(rawGroup) == TRUE

\* rawGroup.origin ??= ...: the right side is evaluated only while origin
\* is undefined
rawGroup_needsOrigin(rawGroup) == rawGroup.origin = 0

\* findOrigin(client, master) up to its first getCell
findOrigin_start(master) ==
    IF master.index - 1 >= 0
    THEN [master |-> master, status |-> "running", backward |-> TRUE,
          index |-> master.index - 1, result |-> None]
    ELSE [master |-> master, status |-> "running", backward |-> FALSE,
          index |-> master.index + 1, result |-> None]

\* findOrigin resumed with the cell of its pending getCell, up to its next
\* getCell or its return
findOrigin_resume(chain, lk) ==
    LET cell == client_getCell(chain, OutPoint(lk.master.txHash, lk.index))
        o == IF IsSome(cell) THEN OrderCell_tryFrom(Get(cell)) ELSE None
    IN  IF ~IsSome(cell) THEN [lk EXCEPT !.status = "done"]
        ELSE IF IsSome(o) /\ OutPoint_eq(OrderCell_getMaster(Get(o)), lk.master)
        THEN [lk EXCEPT !.status = "done", !.result = o]
        ELSE IF lk.backward /\ lk.index - 1 >= 0
        THEN [lk EXCEPT !.index = lk.index - 1]
        ELSE IF lk.backward
        THEN [lk EXCEPT !.backward = FALSE, !.index = lk.master.index + 1]
        ELSE [lk EXCEPT !.index = lk.index + 1]

\* the position of the raw group of the master outpoint, 0 if there is none
rawGroups_get(rawGroups, master) ==
    IF \E g \in 1..Len(rawGroups) :
           OutPoint_eq(rawGroups[g].master.outPoint, master)
    THEN CHOOSE g \in 1..Len(rawGroups) :
             OutPoint_eq(rawGroups[g].master.outPoint, master)
    ELSE 0

\* the body of the last loop of findOrders once the origin is there
findOrders_yield(master, origin, orders) ==
    IF ~IsSome(origin) THEN None
    ELSE LET o == OrderCell_resolve(Get(origin), orders)
         IN  IF ~IsSome(o) THEN None
             ELSE OrderGroup_tryFrom(master, Get(o), Get(origin))

(***************************************************************************)
(* part_000: OrderManager.melt                                             *)
(***************************************************************************)
\* order.isFulfilled(): no matchability predicate holds
OrderCell_isFulfilled(o) == ~OrderCell_isMatchable(o)

\* the loop of melt: order cell and master cell of each group as inputs
RECURSIVE meltLoop(_, _, _)
meltLoop(tx, groups, k) ==
    IF k > Len(groups) THEN tx
    ELSE meltLoop(Tx_addInput(Tx_addInput(tx, groups[k].order.cell),
                              groups[k].master),
                  groups, k + 1)

OrderManager_melt(tx, groups, isFulfilledOnly) ==
    LET Fulfilled(g) == OrderCell_isFulfilled(g.order)
        kept == IF isFulfilledOnly THEN SelectSeq(groups, Fulfilled)
                ELSE groups
    IN  IF Len(kept) = 0 THEN tx ELSE meltLoop(tx, kept, 1)

(***************************************************************************)
(* Input sets                                                              *)
(***************************************************************************)
Ratios == {Ratio(c, u) : c \in 0..MaxScale, u \in 0..MaxScale}

Infos == {Info(c2u, u2c, log) :
            c2u \in Ratios, u2c \in Ratios, log \in 0..MaxLog}

Amounts == {[ckbValue |-> c, udtValue |-> u] :
              c \in 0..MaxAmount, u \in 0..MaxAmount}

(***************************************************************************)
(* State                                                                   *)
(***************************************************************************)
VARIABLES
    tx,        \* the transaction under construction
    origin,    \* the minted order, once its transaction is sent
    order,     \* the live order cell of the chain
    pred,      \* the order consumed by the last transaction sent
    req,       \* the arguments of the last OrderMatcher.from and match
    matcher,   \* the result of the last OrderMatcher.from
    match,     \* the result of the last OrderMatcher.match
    nd,        \* arguments and result of a nonDecreasing evaluation
    rs,        \* origin, candidates and results of validate and resolve
    bm,        \* arguments, loop state and result of a bestMatch call
    mo,        \* arguments and results of a matcher or manager match
    mt,        \* the transaction and the log of the mint and addMatch calls on it
    fo,        \* on-chain cells and the groups findOrders yields
    iv,        \* an Info and the outcome of its validate
    ml,        \* groups, option and transaction of a melt call
    sq,        \* arguments and yields of a sequentialMatcher run
    fl         \* scans, raw groups and origin lookups of a concurrent findOrders

chainVars == <<tx, origin, order, pred, req, matcher, match>>

vars == <<tx, origin, order, pred, req, matcher, match, nd, rs, bm, mo, mt, fo, iv, ml, sq, fl>>

ndIdle == [phase |-> "idle"]

rsIdle == [phase |-> "idle"]

bmIdle == [phase |-> "idle"]

moIdle == [phase |-> "idle"]

mtIdle == [phase |-> "idle"]

foIdle == [phase |-> "idle"]

ivIdle == [phase |-> "idle"]

mlIdle == [phase |-> "idle"]

sqIdle == [phase |-> "idle"]

flIdle == [phase |-> "idle"]

(***************************************************************************)
(* Spec: the life of one order: mint, then matches, each in a transaction  *)
(***************************************************************************)
filler == Output(fixedPointFrom(OrderSize), "owner", "none", <<>>)

Init ==
    /\ tx \in {Tx(1, <<>>, <<>>), Tx(1, <<>>, <<filler>>)}
    /\ origin = None
    /\ order = None
    /\ pred = None
    /\ req = None
    /\ matcher = None
    /\ match = EmptyMatch
    /\ nd = ndIdle
    /\ rs = rsIdle
    /\ bm = bmIdle
    /\ mo = moIdle
    /\ mt = mtIdle
    /\ fo = foIdle
    /\ iv = ivIdle
    /\ ml = mlIdle
    /\ sq = sqIdle
    /\ fl = flIdle

\* positions (from 0) of the order cells among the outputs of tx
orderPositions(t) ==
    {i \in 0..(Len(t.outputs) - 1) : OrderManager_isOrder(Tx_cellAt(t, i))}

\* mint(tx, lock, info, amounts), once, in the first transaction
Mint ==
    /\ tx.hash = 1
    /\ orderPositions(tx) = {}
    /\ \E info \in Infos, amounts \in Amounts :
         tx' = OrderManager_mint(tx, "owner", info, amounts)
    /\ UNCHANGED <<origin, order, pred, req, matcher, match, nd, rs, bm, mo, mt, fo, iv, ml, sq, fl>>

\* the transaction is sent: its order output becomes the live order cell
Send ==
    /\ orderPositions(tx) # {}
    /\ LET position == CHOOSE i \in orderPositions(tx) : TRUE
           new == OrderCell_tryFrom(Tx_cellAt(tx, position))
       IN  /\ order' = new
           /\ origin' = IF tx.inputs = <<>> THEN new ELSE origin
           /\ pred' = IF tx.inputs = <<>> THEN None ELSE order
    /\ tx' = Tx(tx.hash + 1, <<>>, <<>>)
    /\ req' = None
    /\ matcher' = None
    /\ match' = EmptyMatch
    /\ UNCHANGED <<nd, rs, bm, mo, mt, fo, iv, ml, sq, fl>>

From(isCkb2Udt, ckbMiningFee) ==
    /\ IsSome(order)
    /\ tx.inputs = <<>>
    /\ tx.hash <= MaxTx
    /\ req' = Some([isCkb2Udt |-> isCkb2Udt, ckbMiningFee |-> ckbMiningFee,
                    bAllowance |-> -1,
                    threw |-> OrderMatcher_fromThrows(Get(order), isCkb2Udt,
                                                      ckbMiningFee)])
    /\ matcher' = OrderMatcher_from(Get(order), isCkb2Udt, ckbMiningFee)
    /\ match' = EmptyMatch
    /\ UNCHANGED <<tx, origin, order, pred, nd, rs, bm, mo, mt, fo, iv, ml, sq, fl>>

Match(bAllowance) ==
    /\ IsSome(matcher)
    /\ tx.inputs = <<>>
    /\ req' = Some([Get(req) EXCEPT !.bAllowance = bAllowance])
    /\ match' = OrderMatcher_match(Get(matcher), bAllowance)
    /\ UNCHANGED <<tx, origin, order, pred, matcher, nd, rs, bm, mo, mt, fo, iv, ml, sq, fl>>

AddMatch ==
    /\ IsSome(matcher)
    /\ tx.inputs = <<>>
    /\ tx.hash <= MaxTx
    /\ tx' = OrderManager_addMatch(tx, match)
    /\ UNCHANGED <<origin, order, pred, req, matcher, match, nd, rs, bm, mo, mt, fo, iv, ml, sq, fl>>

Next ==
    \/ Mint
    \/ Send
    \/ \E isCkb2Udt \in BOOLEAN, fee \in 0..MaxFee : From(isCkb2Udt, fee)
    \/ \E bAllowance \in 0..MaxAllowance : Match(bAllowance)
    \/ AddMatch

Spec == Init /\ [][Next]_vars


(***************************************************************************)
(* SpecND: nonDecreasing applied to bounded inputs                         *)
(***************************************************************************)
\* largest scale and largest amount handed to nonDecreasing
NdMaxScale == 3

NdMaxAmount == 4

\* the worked example of the documentation: nonDecreasing(3, 7, 100, 50, 40)
ndExample ==
    [aScale |-> 3, bScale |-> 7, aIn |-> 100, bIn |-> 50, aOut |-> 40]

NdInputs ==
    {[aScale |-> a, bScale |-> b, aIn |-> ai, bIn |-> bi, aOut |-> ao] :
        a \in 1..NdMaxScale, b \in 1..NdMaxScale,
        ai \in 0..NdMaxAmount, bi \in 0..NdMaxAmount, ao \in 0..NdMaxAmount}

chainIdle ==
    /\ tx = Tx(1, <<>>, <<>>)
    /\ origin = None
    /\ order = None
    /\ pred = None
    /\ req = None
    /\ matcher = None
    /\ match = EmptyMatch

InitND ==
    /\ chainIdle
    /\ rs = rsIdle
    /\ bm = bmIdle
    /\ mo = moIdle
    /\ mt = mtIdle
    /\ fo = foIdle
    /\ iv = ivIdle
    /\ ml = mlIdle
    /\ sq = sqIdle
    /\ fl = flIdle
    /\ \E in \in {i \in NdInputs : i.aOut <= i.aIn} \cup {ndExample} :
         nd = [phase |-> "in", in |-> in]

NonDecreasing ==
    /\ nd.phase = "in"
    /\ nd' = [phase |-> "out", in |-> nd.in,
              bOut |-> OrderMatcher_nonDecreasing(nd.in.aScale, nd.in.bScale,
                                                  nd.in.aIn, nd.in.bIn,
                                                  nd.in.aOut),
              bOutCell |-> getNonDecreasing(nd.in.aScale, nd.in.bScale,
                                            nd.in.aIn, nd.in.bIn, nd.in.aOut)]
    /\ UNCHANGED <<tx, origin, order, pred, req, matcher, match, rs, bm, mo, mt, fo, iv, ml, sq, fl>>

NextND == NonDecreasing

SpecND == InitND /\ [][NextND]_vars

(***************************************************************************)
(* SpecResolve: validate and resolve applied to an origin and a list of    *)
(* candidate order cells, as findOrders collects them from the chain       *)
(***************************************************************************)
\* longest list of candidates
MaxDescendants == 2

\* the origin: an order minted at output 0 of transaction 1 with 2 CKB
\* above its occupied capacity and 1 UDT, selling CKB at 1:1
rsInfo == Info(Ratio(1, 1), Ratio_empty, 0)

rsOriginCell ==
    Cell(OutPoint(1, 0), fixedPointFrom(OrderSize) + 2, script, udtScript,
         Data_toBytes(Data(1, Relative_create(1), rsInfo)), OrderSize)

\* what a candidate cell may differ in
rsOutPoints == {OutPoint(1, 2), OutPoint(2, 0), OutPoint(2, 1)}

rsMasters ==
    {Relative_create(-1), Master_absolute(OutPoint(1, 1)),
     Master_absolute(OutPoint(2, 1))}

rsInfos == {rsInfo, Info(Ratio(1, 2), Ratio_empty, 0)}

rsAmounts ==
    {[ckbValue |-> 2, udtValue |-> 1], [ckbValue |-> 1, udtValue |-> 2],
     [ckbValue |-> 3, udtValue |-> 0], [ckbValue |-> 1, udtValue |-> 1]}

rsCell(op, lock, type, master, info, amounts) ==
    Cell(op, fixedPointFrom(OrderSize) + amounts.ckbValue, lock, type,
         Data_toBytes(Data(amounts.udtValue, master, info)), OrderSize)

rsCandidateCells ==
    {rsOriginCell}
    \cup {rsCell(op, script, udtScript, m, i, a) :
            op \in rsOutPoints, m \in rsMasters, i \in rsInfos,
            a \in rsAmounts}
    \cup {rsCell(op, l, udtScript, Master_absolute(OutPoint(1, 1)), rsInfo,
                 [ckbValue |-> 1, udtValue |-> 2]) :
            op \in rsOutPoints, l \in {"other"}}
    \cup {rsCell(op, script, t, Master_absolute(OutPoint(1, 1)), rsInfo,
                 [ckbValue |-> 1, udtValue |-> 2]) :
            op \in rsOutPoints, t \in {"other", "none"}}

\* the candidates are order cells already decoded
rsCandidates ==
    {OrderCell_mustFrom(c) :
        c \in {x \in rsCandidateCells : ~OrderCell_mustFromThrows(x)}}

\* lists of at most n candidates at pairwise different outPoints
RECURSIVE rsLists(_)
rsLists(n) ==
    IF n = 0 THEN {<<>>}
    ELSE LET shorter == rsLists(n - 1)
         IN  shorter \cup
             {Append(l, c) : l \in {x \in shorter : Len(x) = n - 1},
                             c \in rsCandidates} 

rsDistinct(l) ==
    \A i, j \in 1..Len(l) :
        i # j => ~OutPoint_eq(l[i].cell.outPoint, l[j].cell.outPoint)

InitResolve ==
    /\ chainIdle
    /\ nd = ndIdle
    /\ bm = bmIdle
    /\ mo = moIdle
    /\ mt = mtIdle
    /\ fo = foIdle
    /\ iv = ivIdle
    /\ ml = mlIdle
    /\ sq = sqIdle
    /\ fl = flIdle
    /\ \E l \in {x \in rsLists(MaxDescendants) : rsDistinct(x)} :
         rs = [phase |-> "in", origin |-> OrderCell_mustFrom(rsOriginCell),
               descendants |-> l]

\* origin.validate(descendants[i])
Validate(i) ==
    /\ rs.phase = "in"
    /\ i \in 1..Len(rs.descendants)
    /\ rs' = [phase |-> "validated", origin |-> rs.origin,
              descendants |-> rs.descendants, i |-> i,
              error |-> OrderCell_validate(rs.origin, rs.descendants[i])]
    /\ UNCHANGED <<tx, origin, order, pred, req, matcher, match, nd, bm, mo, mt, fo, iv, ml, sq, fl>>

\* origin.resolve(descendants)
Resolve ==
    /\ rs.phase = "in"
    /\ rs' = [phase |-> "resolved", origin |-> rs.origin,
              descendants |-> rs.descendants,
              best |-> OrderCell_resolve(rs.origin, rs.descendants)]
    /\ UNCHANGED <<tx, origin, order, pred, req, matcher, match, nd, bm, mo, mt, fo, iv, ml, sq, fl>>

NextResolve ==
    \/ \E i \in 1..MaxDescendants : Validate(i)
    \/ Resolve

SpecResolve == InitResolve /\ [][NextResolve]_vars


(***************************************************************************)
(* SpecBest: bestMatch applied to a pool of order cells, one action per    *)
(* round of its search loop                                                *)
(***************************************************************************)
\* longest order pool
MaxPool == 2

\* the infos of the pool's orders: two ckb->udt orders, a dual-ratio one
bmInfos ==
    {Info(Ratio(1, 1), Ratio_empty, 0), Info(Ratio(1, 2), Ratio_empty, 1),
     Info(Ratio(2, 1), Ratio(1, 1), 0)}

bmAmounts ==
    {[ckbValue |-> 2, udtValue |-> 0], [ckbValue |-> 0, udtValue |-> 2],
     [ckbValue |-> 3, udtValue |-> 1]}

\* an udt->ckb order as well
bmKinds ==
    {[info |-> i, amounts |-> a] : i \in bmInfos, a \in bmAmounts}
    \cup {[info |-> Info(Ratio_empty, Ratio(1, 1), 0),
           amounts |-> [ckbValue |-> 0, udtValue |-> 2]]}

\* the k-th order of a pool: a live order cell, output 0 of transaction k
bmOrder(k, kind) ==
    OrderCell_mustFrom(
        Cell(OutPoint(k, 0), fixedPointFrom(OrderSize) + kind.amounts.ckbValue,
             script, udtScript,
             Data_toBytes(Data(kind.amounts.udtValue,
                               Master_absolute(OutPoint(k, 1)), kind.info)),
             OrderSize))

RECURSIVE bmPools(_)
bmPools(n) ==
    IF n = 0 THEN {<<>>}
    ELSE LET shorter == bmPools(n - 1)
         IN  shorter \cup
             {Append(l, bmOrder(n, kind)) :
                 l \in {x \in shorter : Len(x) = n - 1}, kind \in bmKinds}

\* budgets: a few units, with or without the CKB that pays the mining fees
bmAllowances ==
    {[ckbValue |-> fixedPointFrom(f) + c, udtValue |-> u] :
        f \in {0, MaxPool}, c \in {0, 2}, u \in {0, 3}}

bmExchangeRates ==
    {[ckbScale |-> 1, udtScale |-> 1], [ckbScale |-> 2, udtScale |-> 1]}

\* the calls of bestMatch considered
bmInputs ==
    {[phase |-> "in", orderPool |-> orderPool, allowance |-> allowance,
      exchangeRate |-> exchangeRate, feeRate |-> feeRate,
      ckbAllowanceStep |-> ckbAllowanceStep] :
        orderPool \in bmPools(MaxPool), allowance \in bmAllowances,
        exchangeRate \in bmExchangeRates, feeRate \in {0, 1},
        ckbAllowanceStep \in {1, 2}}

InitBest ==
    /\ chainIdle
    /\ nd = ndIdle
    /\ rs = rsIdle
    /\ mo = moIdle
    /\ mt = mtIdle
    /\ fo = foIdle
    /\ iv = ivIdle
    /\ ml = mlIdle
    /\ sq = sqIdle
    /\ fl = flIdle
    /\ bm \in bmInputs

\* bestMatch up to its loop: the early return, the fee and the steps, the
\* two buffered generators and the initial best
BestStart ==
    /\ bm.phase = "in"
    /\ LET orderSize == IF Len(bm.orderPool) = 0 THEN 0
                        ELSE bm.orderPool[1].cell.occupiedSize
           ckbMiningFee == bestMatch_ckbMiningFee(orderSize, bm.feeRate)
           udtAllowanceStep ==
               bestMatch_udtAllowanceStep(bm.ckbAllowanceStep, bm.exchangeRate)
           in == [orderPool |-> bm.orderPool, allowance |-> bm.allowance,
                  exchangeRate |-> bm.exchangeRate, feeRate |-> bm.feeRate,
                  ckbAllowanceStep |-> bm.ckbAllowanceStep]
       IN  IF orderSize = 0
           THEN bm' = [phase |-> "done", in |-> in, ckbMiningFee |-> 0,
                       rounds |-> 0, result |-> EmptyMatch]
           ELSE IF \/ sequentialMatcher_throws(bm.orderPool, TRUE, ckbMiningFee)
                   \/ sequentialMatcher_throws(bm.orderPool, FALSE,
                                               ckbMiningFee)
           THEN bm' = [phase |-> "threw", in |-> in]
           ELSE bm' =
                  [phase |-> "loop", in |-> in,
                   ckbMiningFee |-> ckbMiningFee, rounds |-> 0,
                   ckb2UdtMatches |->
                       BufferedGenerator_new(
                           OrderManager_sequentialMatcher(
                               bm.orderPool, TRUE, bm.ckbAllowanceStep,
                               ckbMiningFee), 2),
                   udt2CkbMatches |->
                       BufferedGenerator_new(
                           OrderManager_sequentialMatcher(
                               bm.orderPool, FALSE, udtAllowanceStep,
                               ckbMiningFee), 2),
                   best |-> bestMatch_initial(bm.allowance)]
    /\ UNCHANGED <<tx, origin, order, pred, req, matcher, match, nd, rs, mo, mt, fo, iv, ml, sq, fl>>

\* one round of the while loop of bestMatch
BestRound ==
    /\ bm.phase = "loop"
    /\ bestMatch_continues(bm.best)
    /\ LET c2u == BufferedGenerator_next(bm.ckb2UdtMatches, bm.best.i)
           u2c == BufferedGenerator_next(bm.udt2CkbMatches, bm.best.j)
       IN  bm' = [bm EXCEPT
                    !.ckb2UdtMatches = c2u,
                    !.udt2CkbMatches = u2c,
                    !.rounds = @ + 1,
                    !.best = bestMatch_scoreLoop(
                                 [bm.best EXCEPT !.i = 0, !.j = 0], 0,
                                 c2u.buffer, u2c.buffer, bm.in.allowance,
                                 bm.in.exchangeRate, bm.ckbMiningFee)]
    /\ UNCHANGED <<tx, origin, order, pred, req, matcher, match, nd, rs, mo, mt, fo, iv, ml, sq, fl>>

\* the loop is left and the best match returned
BestReturn ==
    /\ bm.phase = "loop"
    /\ ~bestMatch_continues(bm.best)
    /\ bm' = [phase |-> "done", in |-> bm.in,
              ckbMiningFee |-> bm.ckbMiningFee, rounds |-> bm.rounds,
              result |-> [ckbDelta |-> bm.best.ckbDelta,
                          udtDelta |-> bm.best.udtDelta,
                          partials |-> bm.best.partials]]
    /\ UNCHANGED <<tx, origin, order, pred, req, matcher, match, nd, rs, mo, mt, fo, iv, ml, sq, fl>>

NextBest ==
    \/ BestStart
    \/ BestRound
    \/ BestReturn

SpecBest == InitBest /\ [][NextBest]_vars

(***************************************************************************)
(* SpecMint: mint and addMatch calls, in any order, on one transaction     *)
(***************************************************************************)
\* number of calls made on the transaction
MaxCalls == 3

mtInfos ==
    {Info(Ratio(1, 1), Ratio_empty, 0), Info(Ratio_empty, Ratio(1, 2), 1),
     Info(Ratio(2, 1), Ratio(1, 1), 0)}

mtAmounts ==
    {[ckbValue |-> 0, udtValue |-> 1], [ckbValue |-> 2, udtValue |-> 0]}

\* a live order of an earlier transaction, to be matched
mtOrder ==
    OrderCell_mustFrom(
        Cell(OutPoint(0, 0), fixedPointFrom(OrderSize) + 2, script, udtScript,
             Data_toBytes(Data(0, Relative_create(1),
                               Info(Ratio(1, 1), Ratio_empty, 0))),
             OrderSize))

\* the matches handed to addMatch: none, a partial and a full fill of mtOrder
mtMatches ==
    {EmptyMatch} \cup {OrderManager_match(mtOrder, TRUE, a) : a \in 1..2}

InitMint ==
    /\ chainIdle
    /\ nd = ndIdle
    /\ rs = rsIdle
    /\ bm = bmIdle
    /\ mo = moIdle
    /\ fo = foIdle
    /\ iv = ivIdle
    /\ ml = mlIdle
    /\ sq = sqIdle
    /\ fl = flIdle
    /\ \E t \in {Tx(1, <<>>, <<>>), Tx(1, <<>>, <<filler>>)} :
         mt = [phase |-> "run", tx |-> t, log |-> <<>>]

\* mint(tx, lock, info, amounts) on the transaction
MintCall ==
    /\ mt.phase = "run"
    /\ Len(mt.log) < MaxCalls
    /\ \E lock \in {"owner", "other"}, info \in mtInfos, amounts \in mtAmounts :
         LET t2 == OrderManager_mint(mt.tx, lock, info, amounts)
         IN  mt' = [mt EXCEPT
                      !.tx = t2,
                      !.log = Append(@, [op |-> "mint", lock |-> lock,
                                         info |-> info, amounts |-> amounts,
                                         lenBefore |-> Len(mt.tx.outputs),
                                         lenAfter |-> Len(t2.outputs)])]
    /\ UNCHANGED <<tx, origin, order, pred, req, matcher, match, nd, rs, bm, mo, fo, iv, ml, sq, fl>>

\* addMatch(tx, match) on the transaction
AddMatchCall ==
    /\ mt.phase = "run"
    /\ Len(mt.log) < MaxCalls
    /\ \E m \in mtMatches :
         LET t2 == OrderManager_addMatch(mt.tx, m)
         IN  mt' = [mt EXCEPT
                      !.tx = t2,
                      !.log = Append(@, [op |-> "addMatch",
                                         lenBefore |-> Len(mt.tx.outputs),
                                         lenAfter |-> Len(t2.outputs)])]
    /\ UNCHANGED <<tx, origin, order, pred, req, matcher, match, nd, rs, bm, mo, fo, iv, ml, sq, fl>>

NextMint ==
    \/ MintCall
    \/ AddMatchCall

SpecMint == InitMint /\ [][NextMint]_vars

(***************************************************************************)
(* SpecFind: findOrders over a chain of two transactions, a mint           *)
(* transaction and a later one holding candidate descendants               *)
(***************************************************************************)
\* most outputs of the mint transaction, and of the later transaction
MaxMintOutputs == 3

MaxLaterOutputs == 2

foInfo == Info(Ratio(1, 1), Ratio_empty, 0)

foOrderCell(op, lock, master, info, ckbValue, udtValue) ==
    Cell(op, fixedPointFrom(OrderSize) + ckbValue, lock, udtScript,
         Data_toBytes(Data(udtValue, master, info)), OrderSize)

\* the outputs a mint transaction may hold
foMintKinds == {"plain", "master", "mint", "mintSpent", "mintBack"}

foMintOutput(kind, op) ==
    IF kind = "plain"
    THEN [cell |-> Cell(op, fixedPointFrom(OrderSize), "owner", "none", <<>>,
                        OrderSize),
          live |-> TRUE]
    ELSE IF kind = "master"
    THEN [cell |-> Cell(op, fixedPointFrom(OrderSize), "owner", script, <<>>,
                        OrderSize),
          live |-> TRUE]
    ELSE [cell |-> foOrderCell(op, script,
                               Relative_create(IF kind = "mintBack" THEN -1
                                               ELSE 1),
                               foInfo, 2, 0),
          live |-> kind # "mintSpent"]

\* the outputs of the later transaction: orders naming the master at
\* (1, 1), one of them with less value, one with another info, one with
\* another lock, and an order naming the master at (1, 0)
foLaterKinds == {"good", "low", "otherInfo", "otherLock", "otherMaster"}

foLaterOutput(kind, op) ==
    [cell |->
         foOrderCell(op,
                     IF kind = "otherLock" THEN "other" ELSE script,
                     Master_absolute(IF kind = "otherMaster"
                                     THEN OutPoint(1, 0) ELSE OutPoint(1, 1)),
                     IF kind = "otherInfo"
                     THEN Info(Ratio(1, 2), Ratio_empty, 0) ELSE foInfo,
                     1, IF kind = "low" THEN 0 ELSE 1),
     live |-> TRUE]

RECURSIVE foKindLists(_, _)
foKindLists(kinds, n) ==
    IF n = 0 THEN {<<>>}
    ELSE LET shorter == foKindLists(kinds, n - 1)
         IN  shorter \cup
             {Append(l, k) : l \in {x \in shorter : Len(x) = n - 1},
                             k \in kinds}

foChain(mintKinds, laterKinds) ==
    << [i \in 1..Len(mintKinds) |->
           foMintOutput(mintKinds[i], OutPoint(1, i - 1))],
       [i \in 1..Len(laterKinds) |->
           foLaterOutput(laterKinds[i], OutPoint(2, i - 1))] >>

InitFind ==
    /\ chainIdle
    /\ nd = ndIdle
    /\ rs = rsIdle
    /\ bm = bmIdle
    /\ mo = moIdle
    /\ mt = mtIdle
    /\ iv = ivIdle
    /\ ml = mlIdle
    /\ sq = sqIdle
    /\ fl = flIdle
    /\ \E mintKinds \in foKindLists(foMintKinds, MaxMintOutputs),
          laterKinds \in foKindLists(foLaterKinds, MaxLaterOutputs) :
         fo = [phase |-> "in", chain |-> foChain(mintKinds, laterKinds)]

\* findOrders up to its last loop: both scans and the raw groups
FindScan ==
    /\ fo.phase = "in"
    /\ fo' = [phase |-> "groups", chain |-> fo.chain,
              simpleOrders |-> OrderManager_findSimpleOrders(fo.chain),
              allMasters |-> OrderManager_findAllMasters(fo.chain),
              k |-> 1, yielded |-> <<>>]
    /\ UNCHANGED <<tx, origin, order, pred, req, matcher, match, nd, rs, bm, mo, mt, iv, ml, sq, fl>>

\* one iteration of the last loop of findOrders: raw group k
FindGroup ==
    /\ fo.phase = "groups"
    /\ fo.k <= Len(fo.allMasters)
    /\ LET master == fo.allMasters[fo.k]
           g == findOrders_group(fo.chain, master,
                                 rawGroup_orders(fo.simpleOrders, master))
       IN  fo' = [fo EXCEPT !.k = @ + 1, !.yielded = @ \o g]
    /\ UNCHANGED <<tx, origin, order, pred, req, matcher, match, nd, rs, bm, mo, mt, iv, ml, sq, fl>>

\* the generator returns
FindReturn ==
    /\ fo.phase = "groups"
    /\ fo.k > Len(fo.allMasters)
    /\ fo' = [fo EXCEPT !.phase = "done"]
    /\ UNCHANGED <<tx, origin, order, pred, req, matcher, match, nd, rs, bm, mo, mt, iv, ml, sq, fl>>

NextFind ==
    \/ FindScan
    \/ FindGroup
    \/ FindReturn

SpecFind == InitFind /\ [][NextFind]_vars

(***************************************************************************)
(* SpecMatch: OrderMatcher.from followed by match, and OrderManager.match, *)
(* applied to one order cell                                               *)
(***************************************************************************)
\* cells.ts: the OrderCell constructor
OrderCell_new(cell, data, ckbOccupied, ckbUnoccupied, absTotal, absProgress) ==
    [cell |-> cell, data |-> data, ckbOccupied |-> ckbOccupied,
     ckbUnoccupied |-> ckbUnoccupied, absTotal |-> absTotal,
     absProgress |-> absProgress]

\* every valid order cell within the bounds
moInfos == {i \in Infos : Info_validate(i)}

moOrders ==
    {bmOrder(1, [info |-> i, amounts |-> a]) : i \in moInfos, a \in Amounts}

\* the order of the documentation's worked scenarios, in its units:
\* capacity 1000 of which 100 occupied, no UDT, ckbToUdt = (1, 1)
moScenarioOrder(log) ==
    LET data == Data(0, Relative_create(1),
                     Info(Ratio(1, 1), Ratio_empty, log))
    IN  OrderCell_new(Cell(OutPoint(1, 0), 1000, script, udtScript,
                           Data_toBytes(data), OrderSize),
                      data, 100, 900, 900, 0)

moScenarioLogs == {0, 10}

moScenarioAllowances == {500, 600, 900, 1000}

InitMatch ==
    /\ chainIdle
    /\ nd = ndIdle
    /\ rs = rsIdle
    /\ bm = bmIdle
    /\ mt = mtIdle
    /\ fo = foIdle
    /\ iv = ivIdle
    /\ ml = mlIdle
    /\ sq = sqIdle
    /\ fl = flIdle
    /\ \/ \E o \in moOrders, isCkb2Udt \in BOOLEAN, fee \in 0..MaxFee,
             bAllowance \in 0..MaxAllowance :
            mo = [phase |-> "in", order |-> o, isCkb2Udt |-> isCkb2Udt,
                  ckbMiningFee |-> fee, bAllowance |-> bAllowance]
       \/ \E log \in moScenarioLogs, bAllowance \in moScenarioAllowances :
            mo = [phase |-> "in", order |-> moScenarioOrder(log),
                  isCkb2Udt |-> TRUE, ckbMiningFee |-> 0,
                  bAllowance |-> bAllowance]

\* OrderMatcher.from(order, isCkb2Udt, ckbMiningFee)?.match(bAllowance)
MatcherMatch ==
    /\ mo.phase = "in"
    /\ LET m == OrderMatcher_from(mo.order, mo.isCkb2Udt, mo.ckbMiningFee)
       IN  mo' = [phase |-> "matched", order |-> mo.order,
                  isCkb2Udt |-> mo.isCkb2Udt,
                  ckbMiningFee |-> mo.ckbMiningFee,
                  bAllowance |-> mo.bAllowance,
                  threw |-> OrderMatcher_fromThrows(mo.order, mo.isCkb2Udt,
                                                    mo.ckbMiningFee),
                  matcher |-> m,
                  match |-> IF IsSome(m)
                            THEN Some(OrderMatcher_match(Get(m), mo.bAllowance))
                            ELSE None]
    /\ UNCHANGED <<tx, origin, order, pred, req, matcher, match, nd, rs, bm, mt, fo, iv, ml, sq, fl>>

\* OrderManager.match(order, isCkb2Udt, allowance)
ManagerMatch ==
    /\ mo.phase = "in"
    /\ mo.ckbMiningFee = 0
    /\ mo' = [phase |-> "managed", order |-> mo.order,
              isCkb2Udt |-> mo.isCkb2Udt,
              ckbMiningFee |-> mo.ckbMiningFee,
              bAllowance |-> mo.bAllowance,
              threw |-> OrderMatcher_fromThrows(mo.order, mo.isCkb2Udt, 0),
              result |-> OrderManager_match(mo.order, mo.isCkb2Udt,
                                            mo.bAllowance)]
    /\ UNCHANGED <<tx, origin, order, pred, req, matcher, match, nd, rs, bm, mt, fo, iv, ml, sq, fl>>

NextMatch ==
    \/ MatcherMatch
    \/ ManagerMatch

SpecMatch == InitMatch /\ [][NextMatch]_vars

(***************************************************************************)
(* SpecInfo: Info.validate applied to an Info                              *)
(***************************************************************************)
\* values of ckbMinMatchLog around both ends of its range
ivLogs == {-1, 0, 1, 64, 65}

InitInfo ==
    /\ chainIdle
    /\ nd = ndIdle
    /\ rs = rsIdle
    /\ bm = bmIdle
    /\ mo = moIdle
    /\ mt = mtIdle
    /\ fo = foIdle
    /\ ml = mlIdle
    /\ sq = sqIdle
    /\ fl = flIdle
    /\ \E c2u \in Ratios, u2c \in Ratios, log \in ivLogs :
         iv = [phase |-> "in", info |-> Info(c2u, u2c, log)]

\* info.validate()
ValidateInfo ==
    /\ iv.phase = "in"
    /\ iv' = [phase |-> "out", info |-> iv.info,
              accepted |-> Info_validate(iv.info)]
    /\ UNCHANGED <<tx, origin, order, pred, req, matcher, match, nd, rs, bm, mo, mt, fo, ml, sq, fl>>

NextInfo == ValidateInfo

SpecInfo == InitInfo /\ [][NextInfo]_vars

(***************************************************************************)
(* SpecMelt: melt applied to a list of order groups                        *)
(***************************************************************************)
\* longest list of groups handed to melt
MaxGroups == 2

\* the group of the valid order cell of the given kind minted in
\* transaction k, with its master cell
mlGroup(k, kind) ==
    OrderGroup(Cell(OutPoint(k, 1), fixedPointFrom(OrderSize), "owner",
                    script, <<>>, OrderSize),
               bmOrder(k, kind), bmOrder(k, kind))

\* a ckb->udt, an udt->ckb and a dual-ratio order kind, with every amount
mlKinds ==
    {[info |-> i, amounts |-> a] :
        i \in {Info(Ratio(1, 1), Ratio_empty, 0),
               Info(Ratio_empty, Ratio(1, 2), 0),
               Info(Ratio(2, 1), Ratio(1, 1), 0)},
        a \in Amounts}

RECURSIVE mlLists(_)
mlLists(n) ==
    IF n = 0 THEN {<<>>}
    ELSE LET shorter == mlLists(n - 1)
         IN  shorter \cup
             {Append(l, mlGroup(n, kind)) :
                 l \in {x \in shorter : Len(x) = n - 1}, kind \in mlKinds}

\* lists of groups of a few kinds, and every valid order in a group alone
mlGroupLists ==
    mlLists(MaxGroups)
      \cup {<<mlGroup(1, [info |-> i, amounts |-> a])>> :
              i \in moInfos, a \in Amounts}

InitMelt ==
    /\ chainIdle
    /\ nd = ndIdle
    /\ rs = rsIdle
    /\ bm = bmIdle
    /\ mo = moIdle
    /\ mt = mtIdle
    /\ fo = foIdle
    /\ iv = ivIdle
    /\ sq = sqIdle
    /\ fl = flIdle
    /\ \E groups \in mlGroupLists, isFulfilledOnly \in BOOLEAN :
         ml = [phase |-> "in", groups |-> groups,
               isFulfilledOnly |-> isFulfilledOnly, tx |-> Tx(9, <<>>, <<>>)]

\* melt(tx, groups, {isFulfilledOnly})
Melt ==
    /\ ml.phase = "in"
    /\ ml' = [ml EXCEPT
                !.phase = "out",
                !.tx = OrderManager_melt(ml.tx, ml.groups, ml.isFulfilledOnly)]
    /\ UNCHANGED <<tx, origin, order, pred, req, matcher, match, nd, rs, bm, mo, mt, fo, iv, sq, fl>>

NextMelt == Melt

SpecMelt == InitMelt /\ [][NextMelt]_vars

(***************************************************************************)
(* SpecSeq: a consumer pulling the matches of sequentialMatcher one by one *)
(***************************************************************************)
\* largest allowanceStep
MaxStep == 3

\* longest order pool given to sequentialMatcher
MaxSeqPool == 3

\* two ckb->udt orders, two dual-ratio ones and an udt->ckb one; the ones
\* with ckbMinMatchLog 1 are abandoned when the first chunk is too small
sqKinds ==
    {[info |-> Info(Ratio(1, 1), Ratio_empty, 0),
      amounts |-> [ckbValue |-> 3, udtValue |-> 0]],
     [info |-> Info(Ratio(1, 1), Ratio_empty, 1),
      amounts |-> [ckbValue |-> 4, udtValue |-> 0]],
     [info |-> Info(Ratio(2, 1), Ratio(1, 1), 0),
      amounts |-> [ckbValue |-> 3, udtValue |-> 1]],
     [info |-> Info(Ratio(1, 1), Ratio(1, 1), 1),
      amounts |-> [ckbValue |-> 2, udtValue |-> 4]],
     [info |-> Info(Ratio_empty, Ratio(1, 1), 0),
      amounts |-> [ckbValue |-> 0, udtValue |-> 3]]}

RECURSIVE sqPools(_)
sqPools(n) ==
    IF n = 0 THEN {<<>>}
    ELSE LET shorter == sqPools(n - 1)
         IN  shorter \cup
             {Append(l, bmOrder(n, kind)) :
                 l \in {x \in shorter : Len(x) = n - 1}, kind \in sqKinds}

\* the calls of sequentialMatcher considered
sqInputs ==
    {[phase |-> "in", orderPool |-> orderPool, isCkb2Udt |-> isCkb2Udt,
      allowanceStep |-> allowanceStep, ckbMiningFee |-> ckbMiningFee] :
        orderPool \in sqPools(MaxSeqPool), isCkb2Udt \in BOOLEAN,
        allowanceStep \in 1..MaxStep, ckbMiningFee \in 0..MaxFee}

InitSeq ==
    /\ chainIdle
    /\ nd = ndIdle
    /\ rs = rsIdle
    /\ bm = bmIdle
    /\ mo = moIdle
    /\ mt = mtIdle
    /\ fo = foIdle
    /\ iv = ivIdle
    /\ ml = mlIdle
    /\ fl = flIdle
    /\ sq \in sqInputs

\* the first next(): the matchers are built and the empty match is yielded,
\* unless OrderMatcher.from throws
SeqStart ==
    /\ sq.phase = "in"
    /\ IF sequentialMatcher_throws(sq.orderPool, sq.isCkb2Udt, sq.ckbMiningFee)
       THEN sq' = [phase |-> "threw", in |-> sq]
       ELSE sq' = [phase |-> "run", in |-> sq,
                   matchers |-> sequentialMatcher_matchers(
                       sq.orderPool, sq.isCkb2Udt, sq.ckbMiningFee),
                   rest |-> Tail(OrderManager_sequentialMatcher(
                       sq.orderPool, sq.isCkb2Udt, sq.allowanceStep,
                       sq.ckbMiningFee)),
                   yielded |-> <<EmptyMatch>>]
    /\ UNCHANGED <<tx, origin, order, pred, req, matcher, match, nd, rs, bm, mo, mt, fo, iv, ml, fl>>

\* a later next() that yields a match
SeqYield ==
    /\ sq.phase = "run"
    /\ Len(sq.rest) > 0
    /\ sq' = [sq EXCEPT !.rest = Tail(sq.rest),
                        !.yielded = Append(sq.yielded, Head(sq.rest))]
    /\ UNCHANGED <<tx, origin, order, pred, req, matcher, match, nd, rs, bm, mo, mt, fo, iv, ml, fl>>

\* the next() that finds the generator exhausted
SeqReturn ==
    /\ sq.phase = "run"
    /\ Len(sq.rest) = 0
    /\ sq' = [sq EXCEPT !.phase = "done"]
    /\ UNCHANGED <<tx, origin, order, pred, req, matcher, match, nd, rs, bm, mo, mt, fo, iv, ml, fl>>

NextSeq == SeqStart \/ SeqYield \/ SeqReturn

SpecSeq == InitSeq /\ [][NextSeq]_vars

(***************************************************************************)
(* SpecLookup: findOrders with its origin lookups running concurrently,    *)
(* over a chain of a mint transaction and a later one                      *)
(***************************************************************************)
\* most outputs of the mint transaction, and of the later transaction
MaxLookupOutputs == 4

MaxLookupOrders == 2

flMintKinds == {"master", "mint", "mintSpent", "mintBack"}

\* an order of the later transaction, naming the master at (1, m)
flLaterOutput(m, op) ==
    [cell |-> foOrderCell(op, script, Master_absolute(OutPoint(1, m)),
                          foInfo, 1, 1),
     live |-> TRUE]

flChain(mintKinds, laterMasters) ==
    << [i \in 1..Len(mintKinds) |->
           foMintOutput(mintKinds[i], OutPoint(1, i - 1))],
       [i \in 1..Len(laterMasters) |->
           flLaterOutput(laterMasters[i], OutPoint(2, i - 1))] >>

InitLookup ==
    /\ chainIdle
    /\ nd = ndIdle
    /\ rs = rsIdle
    /\ bm = bmIdle
    /\ mo = moIdle
    /\ mt = mtIdle
    /\ fo = foIdle
    /\ iv = ivIdle
    /\ ml = mlIdle
    /\ sq = sqIdle
    /\ \E mintKinds \in foKindLists(flMintKinds, MaxLookupOutputs),
          laterMasters \in foKindLists({1, 2}, MaxLookupOrders) :
         fl = [phase |-> "in", chain |-> flChain(mintKinds, laterMasters)]

\* both scans and the map of raw groups
LookupScan ==
    /\ fl.phase = "in"
    /\ LET allMasters == OrderManager_findAllMasters(fl.chain)
       IN  fl' = [phase |-> "grouping", chain |-> fl.chain,
                  simpleOrders |-> OrderManager_findSimpleOrders(fl.chain),
                  allMasters |-> allMasters,
                  rawGroups |-> [g \in 1..Len(allMasters) |->
                                    rawGroup_new(allMasters[g])],
                  lookups |-> <<>>, completed |-> <<>>,
                  n |-> 1, k |-> 1, yielded |-> <<>>]
    /\ UNCHANGED <<tx, origin, order, pred, req, matcher, match, nd, rs, bm, mo, mt, fo, iv, ml, sq>>

\* one iteration of the loop over the simple orders: the order is pushed
\* into the raw group of its master and, if the group has no origin promise
\* yet, findOrigin is called
LookupGroupOrder ==
    /\ fl.phase = "grouping"
    /\ fl.n <= Len(fl.simpleOrders)
    /\ LET o == fl.simpleOrders[fl.n]
           master == OrderCell_getMaster(o)
           g == rawGroups_get(fl.rawGroups, master)
       IN  IF g = 0
           THEN fl' = [fl EXCEPT !.n = @ + 1]
           ELSE IF ~rawGroup_needsOrigin(fl.rawGroups[g])
           THEN fl' = [fl EXCEPT !.n = @ + 1,
                                 !.rawGroups[g].orders = Append(@, o)]
           ELSE fl' = [fl EXCEPT !.n = @ + 1,
                                 !.rawGroups[g].orders = Append(@, o),
                                 !.rawGroups[g].origin = Len(fl.lookups) + 1,
                                 !.lookups = Append(@, findOrigin_start(master))]
    /\ UNCHANGED <<tx, origin, order, pred, req, matcher, match, nd, rs, bm, mo, mt, fo, iv, ml, sq>>

\* the loop over the simple orders is over
LookupGrouped ==
    /\ fl.phase = "grouping"
    /\ fl.n > Len(fl.simpleOrders)
    /\ fl' = [fl EXCEPT !.phase = "awaiting"]
    /\ UNCHANGED <<tx, origin, order, pred, req, matcher, match, nd, rs, bm, mo, mt, fo, iv, ml, sq>>

\* the client answers the pending getCell of some lookup, which runs on
LookupResume ==
    /\ fl.phase = "awaiting"
    /\ \E l \in 1..Len(fl.lookups) :
         /\ fl.lookups[l].status = "running"
         /\ LET lk == findOrigin_resume(fl.chain, fl.lookups[l])
            IN  fl' = [fl EXCEPT
                         !.lookups[l] = lk,
                         !.completed = IF lk.status = "done"
                                       THEN Append(@, l) ELSE @]
    /\ UNCHANGED <<tx, origin, order, pred, req, matcher, match, nd, rs, bm, mo, mt, fo, iv, ml, sq>>

\* one iteration of the last loop: a group without orders is skipped, the
\* origin of another is awaited and the group yielded if it is valid
LookupYield ==
    /\ fl.phase = "awaiting"
    /\ fl.k <= Len(fl.rawGroups)
    /\ LET rg == fl.rawGroups[fl.k]
       IN  IF Len(rg.orders) = 0 \/ rg.origin = 0
           THEN fl' = [fl EXCEPT !.k = @ + 1]
           ELSE /\ fl.lookups[rg.origin].status = "done"
                /\ fl' = [fl EXCEPT
                            !.k = @ + 1,
                            !.yielded = @ \o findOrders_yield(
                                rg.master, fl.lookups[rg.origin].result,
                                rg.orders)]
    /\ UNCHANGED <<tx, origin, order, pred, req, matcher, match, nd, rs, bm, mo, mt, fo, iv, ml, sq>>

\* the generator returns
LookupReturn ==
    /\ fl.phase = "awaiting"
    /\ fl.k > Len(fl.rawGroups)
    /\ fl' = [fl EXCEPT !.phase = "done"]
    /\ UNCHANGED <<tx, origin, order, pred, req, matcher, match, nd, rs, bm, mo, mt, fo, iv, ml, sq>>

NextLookup ==
    \/ LookupScan
    \/ LookupGroupOrder
    \/ LookupGrouped
    \/ LookupResume
    \/ LookupYield
    \/ LookupReturn

SpecLookup == InitLookup /\ [][NextLookup]_vars

(***************************************************************************)
(* SpecTerm: a call of bestMatch, or a consumer of sequentialMatcher,      *)
(* with weak fairness on the steps of their loops                          *)
(***************************************************************************)
InitTerm ==
    /\ chainIdle
    /\ nd = ndIdle
    /\ rs = rsIdle
    /\ bm = bmIdle
    /\ mo = moIdle
    /\ mt = mtIdle
    /\ fo = foIdle
    /\ iv = ivIdle
    /\ ml = mlIdle
    /\ sq = sqIdle
    /\ fl = flIdle

\* bestMatch is called
TermBest ==
    /\ bm = bmIdle
    /\ sq = sqIdle
    /\ bm' \in bmInputs
    /\ UNCHANGED <<tx, origin, order, pred, req, matcher, match, nd, rs, mo, mt, fo, iv, ml, sq, fl>>

\* a consumer of sequentialMatcher is started
TermSeq ==
    /\ bm = bmIdle
    /\ sq = sqIdle
    /\ sq' \in sqInputs
    /\ UNCHANGED <<tx, origin, order, pred, req, matcher, match, nd, rs, bm, mo, mt, fo, iv, ml, fl>>

\* the steps of the two loops: a round of the search loop of bestMatch and
\* its exit, a pull of the consumer of sequentialMatcher and its end
TermRun == BestRound \/ BestReturn \/ SeqYield \/ SeqReturn

NextTerm ==
    \/ TermBest
    \/ TermSeq
    \/ BestStart
    \/ SeqStart
    \/ TermRun

\* the loops run on once entered: bestMatch is synchronous code, and the
\* consumer pulls until the generator is done
SpecTerm == InitTerm /\ [][NextTerm]_vars /\ WF_vars(TermRun)

(***************************************************************************)
(* Claims                                                                  *)
(***************************************************************************)
\* b is the least integer with aScale*aOut + bScale*b >= aScale*aIn + bScale*bIn
ndIsLeast(in, b) ==
    /\ in.aScale * in.aOut + in.bScale * b
         >= in.aScale * in.aIn + in.bScale * in.bIn
    /\ in.aScale * in.aOut + in.bScale * (b - 1)
         < in.aScale * in.aIn + in.bScale * in.bIn

\* C1: for scales >= 1 and 0 <= aOut <= aIn, bIn >= 0, nonDecreasing (and
\* getNonDecreasing of cells.ts) returns the least integer bOut with
\* aScale*aOut + bScale*bOut >= aScale*aIn + bScale*bIn; and
\* nonDecreasing(3, 7, 100, 50, 40) = 76.
C1_NonDecreasingIsLeast ==
    nd.phase = "out" =>
        /\ ndIsLeast(nd.in, nd.bOut)
        /\ ndIsLeast(nd.in, nd.bOutCell)
        /\ nd.in = ndExample => nd.bOut = 76

C1_Witness ==
    /\ nd.phase = "out"
    /\ nd.in = ndExample
    /\ nd.bOut = 76

\* the partial of the last match, in the matcher's a/b terms
matchOut ==
    LET p == match.partials[1]
    IN  IF Get(matcher).isCkb2Udt
        THEN [aOut |-> p.ckbOut, bOut |-> p.udtOut]
        ELSE [aOut |-> p.udtOut, bOut |-> p.ckbOut]

hasPartial == IsSome(matcher) /\ Len(match.partials) > 0

\* C2: whenever OrderMatcher.from succeeded and match returned a partial
\* (full or partial fill), aScale*aOut + bScale*bOut >= aScale*aIn +
\* bScale*bIn holds with the matcher's scales and amounts.
C2_MatchNonDecreasing ==
    hasPartial =>
        LET m == Get(matcher)
        IN  /\ Len(match.partials) = 1
            /\ m.aScale * matchOut.aOut + m.bScale * matchOut.bOut
                 >= m.aScale * m.aIn + m.bScale * m.bIn

\* a partial fill: the allowance is below bMaxMatch and a partial came back
C2_Witness ==
    /\ hasPartial
    /\ Get(req).bAllowance >= Get(matcher).bMinMatch
    /\ Get(req).bAllowance < Get(matcher).bMaxMatch
    /\ matchOut.aOut > Get(matcher).aMin

\* C3: the successor order cell decoded from the output addMatch wrote has
\* absProgress and absTotal not below those of the order it consumed.
C3_SuccessorMonotone ==
    (IsSome(pred) /\ IsSome(order)) =>
        /\ Get(order).absProgress >= Get(pred).absProgress
        /\ Get(order).absTotal >= Get(pred).absTotal

\* C5: OrderMatcher.from takes (aScale, bScale) from the ratio of the
\* requested direction (ckbToUdt, or udtToCkb with the roles swapped); an
\* order with only udtToCkb populated and udtAmount > 0 yields a matcher in
\* the udt->ckb direction, and an order with only ckbToUdt populated yields
\* none in that direction.
C5_ScalesFromRequestedDirection ==
    IsSome(req) =>
        LET i == Get(order).data.info
            r == Get(req)
        IN  /\ (IsSome(matcher) /\ r.isCkb2Udt) =>
                  /\ Get(matcher).aScale = i.ckbToUdt.ckbScale
                  /\ Get(matcher).bScale = i.ckbToUdt.udtScale
            /\ (IsSome(matcher) /\ ~r.isCkb2Udt) =>
                  /\ Get(matcher).aScale = i.udtToCkb.udtScale
                  /\ Get(matcher).bScale = i.udtToCkb.ckbScale
            /\ (/\ ~r.isCkb2Udt
                /\ Ratio_isEmpty(i.ckbToUdt)
                /\ Ratio_isPopulated(i.udtToCkb)
                /\ Get(order).data.udtAmount > 0) => IsSome(matcher)
            /\ (/\ ~r.isCkb2Udt
                /\ Ratio_isPopulated(i.ckbToUdt)
                /\ Ratio_isEmpty(i.udtToCkb)) => ~IsSome(matcher)

\* the descendant validate was called on
rsDescendant == rs.descendants[rs.i]

\* C6: for a descendant at another outPoint with the origin's lock, type and
\* resolved master and with absTotal and absProgress not lower, validate
\* raises whenever the descendant's info differs from the origin's.
C6_InfoMismatchRaises ==
    (/\ rs.phase = "validated"
     /\ ~OutPoint_eq(rs.origin.cell.outPoint, rsDescendant.cell.outPoint)
     /\ rsDescendant.cell.lock = rs.origin.cell.lock
     /\ rsDescendant.cell.type = rs.origin.cell.type
     /\ OrderCell_getMaster(rsDescendant) = OrderCell_getMaster(rs.origin)
     /\ rsDescendant.absTotal >= rs.origin.absTotal
     /\ rsDescendant.absProgress >= rs.origin.absProgress
     /\ ~Info_eq(rsDescendant.data.info, rs.origin.data.info))
        => rs.error # ""

rsLower(d) ==
    /\ ~OutPoint_eq(rs.origin.cell.outPoint, d.cell.outPoint)
    /\ \/ d.absProgress < rs.origin.absProgress
       \/ d.absTotal < rs.origin.absTotal

\* C7: validate raises for a descendant at another outPoint whose
\* absProgress or absTotal is below the origin's; resolve never returns a
\* cell below the origin, and resolve([d]) returns nothing for such a d.
C7_LowerRejected ==
    /\ (rs.phase = "validated" /\ rsLower(rsDescendant)) => rs.error # ""
    /\ (rs.phase = "resolved" /\ IsSome(rs.best)) =>
          /\ Get(rs.best).absProgress >= rs.origin.absProgress
          /\ Get(rs.best).absTotal >= rs.origin.absTotal
    /\ (/\ rs.phase = "resolved"
        /\ Len(rs.descendants) = 1
        /\ rsLower(rs.descendants[1])) => ~IsSome(rs.best)

\* the confusion-attack scenario: same master, lock and type, lower progress
C7_Witness ==
    /\ rs.phase = "validated"
    /\ rsDescendant.cell.lock = rs.origin.cell.lock
    /\ rsDescendant.cell.type = rs.origin.cell.type
    /\ OrderCell_getMaster(rsDescendant) = OrderCell_getMaster(rs.origin)
    /\ rsDescendant.absTotal >= rs.origin.absTotal
    /\ rsDescendant.absProgress < rs.origin.absProgress
    /\ rs.error = "Progress is lower than the original one"

\* the positions of the candidates that pass origin.validate
rsValid ==
    {k \in 1..Len(rs.descendants) :
        OrderCell_validate(rs.origin, rs.descendants[k]) = ""}

\* C8: resolve returns a candidate that passes validate and whose
\* absProgress is the greatest among those that pass; it returns nothing
\* exactly when none passes.
C8_ResolveBest ==
    rs.phase = "resolved" =>
        /\ ~IsSome(rs.best) <=> rsValid = {}
        /\ IsSome(rs.best) =>
              /\ \E k \in rsValid : rs.descendants[k] = Get(rs.best)
              /\ \A k \in rsValid :
                    rs.descendants[k].absProgress <= Get(rs.best).absProgress

\* two valid candidates, the better one last
C8_Witness ==
    /\ rs.phase = "resolved"
    /\ Cardinality(rsValid) = 2
    /\ IsSome(rs.best)
    /\ rs.descendants[2] = Get(rs.best)
    /\ rs.descendants[1].absProgress < rs.descendants[2].absProgress

\* the valid candidates of greatest absProgress
rsTop ==
    {k \in rsValid :
        \A j \in rsValid :
            rs.descendants[j].absProgress <= rs.descendants[k].absProgress}

rsTie ==
    /\ rs.phase = "resolved"
    /\ \E k \in rsTop : Data_isMint(rs.descendants[k].data)
    /\ \E k \in rsTop : ~Data_isMint(rs.descendants[k].data)

\* C9 as stated: at a tie between a mint and an absolute-master candidate,
\* resolve returns the absolute-master one.
C9_TiePrefersAbsolute ==
    rsTie => (IsSome(rs.best) /\ ~Data_isMint(Get(rs.best).data))

\* C9 amended: at such a tie resolve returns the relative-master (mint)
\* candidate, in whatever order the candidates are listed.
C9_TiePrefersMint ==
    rsTie => (IsSome(rs.best) /\ Data_isMint(Get(rs.best).data))

\* the absolute-master candidate is listed first and the mint replaces it
C9_Witness ==
    /\ rsTie
    /\ Len(rs.descendants) = 2
    /\ ~Data_isMint(rs.descendants[1].data)
    /\ Data_isMint(rs.descendants[2].data)
    /\ Get(rs.best) = rs.descendants[2]

\* C10: every successor along the chain of a minted order resolves to the
\* minted order's master outPoint, references it absolutely and carries the
\* minted order's info.
C10_ChainKeepsMaster ==
    (IsSome(origin) /\ IsSome(pred) /\ IsSome(order)) =>
        /\ OutPoint_eq(OrderCell_getMaster(Get(order)),
                       OrderCell_getMaster(Get(origin)))
        /\ Get(order).data.master.type = "absolute"
        /\ Info_eq(Get(order).data.info, Get(origin).data.info)

\* the second successor: the order consumed was itself a successor
C10_Witness ==
    /\ IsSome(origin) /\ IsSome(pred) /\ IsSome(order)
    /\ Data_isMint(Get(origin).data)
    /\ ~Data_isMint(Get(pred).data)
    /\ Get(order).cell.outPoint.txHash = 3


\* C4: the match bestMatch returns, after any number of rounds, satisfies
\* allowance.ckbValue + ckbDelta - |partials|*ckbMiningFee >= 0 and
\* allowance.udtValue + udtDelta >= 0.
C4_BestMatchWithinBudget ==
    bm.phase = "done" =>
        /\ bm.in.allowance.ckbValue + bm.result.ckbDelta
             - Len(bm.result.partials) * bm.ckbMiningFee >= 0
        /\ bm.in.allowance.udtValue + bm.result.udtDelta >= 0

\* a match with a partial returned after more than one round, where any
\* further UDT spent would have exceeded the budget
C4_Witness ==
    /\ bm.phase = "done"
    /\ bm.rounds >= 2
    /\ Len(bm.result.partials) >= 1
    /\ bm.in.allowance.udtValue + bm.result.udtDelta = 0

\* TRUE iff the k-th call on the transaction was a mint whose two outputs
\* are where and what mint is said to leave
mintLeft(k) ==
    LET c == mt.log[k]
        p == c.lenBefore
        orderCell == Tx_cellAt(mt.tx, p)
        masterCell == Tx_cellAt(mt.tx, p + 1)
        data == Data_decode(orderCell.outputData)
    IN  /\ c.lenAfter = p + 2
        /\ Len(mt.tx.outputs) >= p + 2
        /\ orderCell.lock = script
        /\ orderCell.type = udtScript
        /\ orderCell.capacity
             = fixedPointFrom(orderCell.occupiedSize) + c.amounts.ckbValue
        /\ data.master.type = "relative"
        /\ data.master.distance = 1
        /\ data.udtAmount = c.amounts.udtValue
        /\ Info_eq(data.info, c.info)
        /\ masterCell.type = script
        /\ masterCell.lock = c.lock
        /\ OutPoint_eq(Data_getMaster(data, orderCell.outPoint),
                       masterCell.outPoint)

\* C11: after any sequence of mint and addMatch calls on one transaction,
\* each mint has appended exactly two consecutive outputs, the order cell at
\* p (order lock, UDT type, occupied capacity + ckbValue, relative master at
\* distance 1) and its master cell at p + 1 (order type, caller's lock), and
\* the order's master resolved at (txHash, p) is the outpoint (txHash, p + 1).
C11_MintAppendsOrderAndMaster ==
    mt.phase = "run" =>
        \A k \in 1..Len(mt.log) : mt.log[k].op = "mint" => mintLeft(k)

\* a mint, then an addMatch that appends a successor, then a second mint
C11_Witness ==
    /\ mt.phase = "run"
    /\ Len(mt.log) = 3
    /\ mt.log[1].op = "mint"
    /\ mt.log[2].op = "addMatch"
    /\ mt.log[2].lenAfter = mt.log[2].lenBefore + 1
    /\ mt.log[3].op = "mint"
    /\ mt.log[3].amounts.ckbValue > 0

\* the master outpoint an order cell names, from the fields of its data
namedMaster(o) ==
    IF o.data.master.type = "relative"
    THEN [txHash |-> o.cell.outPoint.txHash,
          index |-> o.cell.outPoint.index + o.data.master.distance]
    ELSE o.data.master.outPoint

foYieldedOrders == {fo.yielded[k].order : k \in 1..Len(fo.yielded)}

foMasterOutPoints == {fo.allMasters[k].outPoint : k \in 1..Len(fo.allMasters)}

\* C12: every group findOrders yields has a master cell whose type script
\* is the order's lock script, an order whose master is the master cell's
\* outpoint and an order that origin.validate accepts; an order whose master
\* is not among the master cells found, or whose origin is not found, is
\* never yielded.
C12_YieldedGroupsAreValid ==
    fo.phase \in {"groups", "done"} =>
        /\ \A k \in 1..Len(fo.yielded) :
             LET g == fo.yielded[k]
             IN  /\ g.master.type # "none"
                 /\ g.master.type = g.order.cell.lock
                 /\ namedMaster(g.order) = g.master.outPoint
                 /\ OrderCell_validate(g.origin, g.order) = ""
        /\ \A o \in foYieldedOrders :
             /\ namedMaster(o) \in foMasterOutPoints
             /\ IsSome(OrderManager_findOrigin(fo.chain, namedMaster(o)))

\* findOrders has returned having yielded a descendant of a spent origin
\* and having passed over an order whose master cell is not on the chain
C12_Witness ==
    /\ fo.phase = "done"
    /\ \E k \in 1..Len(fo.yielded) :
         fo.yielded[k].origin.cell.outPoint # fo.yielded[k].order.cell.outPoint
    /\ \E k \in 1..Len(fo.simpleOrders) :
         namedMaster(fo.simpleOrders[k]) \notin foMasterOutPoints

\* TRUE iff the order handed to the match can be matched in the requested
\* direction: that direction's ratio is populated and the giving side holds
\* something above its minimum
moMatchable ==
    IF mo.isCkb2Udt THEN OrderCell_isCkb2UdtMatchable(mo.order)
    ELSE OrderCell_isUdt2CkbMatchable(mo.order)

\* C13: OrderManager.match raises when the order cannot be matched in the
\* requested direction; it does not return normally then.
C13_IncompatibleOrderRaises ==
    (mo.phase = "managed" /\ ~moMatchable) => mo.threw

ratioEmpty(r) == r.ckbScale = 0 /\ r.udtScale = 0

ratioPopulated(r) == r.ckbScale >= 1 /\ r.udtScale >= 1

\* C14: Info.validate accepts an Info iff ckbMinMatchLog is in [0, 64] and
\* either exactly one ratio is populated while the other is empty, or both
\* are populated and ckbToUdt.ckbScale * udtToCkb.udtScale >=
\* ckbToUdt.udtScale * udtToCkb.ckbScale.
C14_InfoValidateIff ==
    iv.phase = "out" =>
        LET c == iv.info.ckbToUdt
            u == iv.info.udtToCkb
        IN  iv.accepted <=>
              /\ iv.info.ckbMinMatchLog >= 0
              /\ iv.info.ckbMinMatchLog <= 64
              /\ \/ ratioPopulated(c) /\ ratioEmpty(u)
                 \/ ratioEmpty(c) /\ ratioPopulated(u)
                 \/ /\ ratioPopulated(c)
                    /\ ratioPopulated(u)
                    /\ c.ckbScale * u.udtScale >= c.udtScale * u.ckbScale

\* a dual-ratio Info that would let value be extracted has been rejected
C14_Witness ==
    /\ iv.phase = "out"
    /\ ~iv.accepted
    /\ iv.info.ckbMinMatchLog = 64
    /\ ratioPopulated(iv.info.ckbToUdt)
    /\ ratioPopulated(iv.info.udtToCkb)

\* TRUE iff melt has made the order cell and the master cell of group g
\* inputs of the transaction
mlConsumed(g) ==
    /\ \E k \in 1..Len(ml.tx.inputs) : ml.tx.inputs[k] = g.order.cell
    /\ \E k \in 1..Len(ml.tx.inputs) : ml.tx.inputs[k] = g.master

mlDone == ml.phase = "out" /\ ml.isFulfilledOnly

\* C15: for every valid order cell, single-direction or dual-ratio,
\* absProgress = absTotal exactly when isMatchable() is false, so melt with
\* isFulfilledOnly consumes exactly the groups whose order has
\* absProgress = absTotal.
C15_FulfilledIffNotMatchable ==
    mlDone =>
        \A k \in 1..Len(ml.groups) :
            LET o == ml.groups[k].order
            IN  /\ (o.absProgress = o.absTotal) <=> ~OrderCell_isMatchable(o)
                /\ mlConsumed(ml.groups[k]) <=> (o.absProgress = o.absTotal)

\* C15 as the code has it: the equivalence holds for single-direction
\* orders; a dual-ratio order always has absProgress = absTotal and is
\* matchable as long as it holds unoccupied CKB or UDT; melt with
\* isFulfilledOnly consumes exactly the groups whose order is not matchable.
C15_FulfilledIffNotMatchableSingle ==
    mlDone =>
        \A k \in 1..Len(ml.groups) :
            LET o == ml.groups[k].order
                dual == /\ o.data.info.ckbToUdt.ckbScale > 0
                        /\ o.data.info.udtToCkb.ckbScale > 0
            IN  /\ ~dual =>
                     ((o.absProgress = o.absTotal) <=> ~OrderCell_isMatchable(o))
                /\ dual =>
                     /\ o.absProgress = o.absTotal
                     /\ OrderCell_isMatchable(o)
                          <=> (o.ckbUnoccupied > 0 \/ o.data.udtAmount > 0)
                /\ mlConsumed(ml.groups[k]) <=> ~OrderCell_isMatchable(o)

\* melt has consumed a fulfilled single-direction order and left a
\* dual-ratio order that still holds funds
C15_Witness ==
    /\ mlDone
    /\ Len(ml.groups) = 2
    /\ \E k \in 1..2 :
         /\ ml.groups[k].order.data.info.udtToCkb.ckbScale = 0
         /\ ml.groups[k].order.absTotal > 0
         /\ mlConsumed(ml.groups[k])
    /\ \E k \in 1..2 :
         /\ ml.groups[k].order.data.info.ckbToUdt.ckbScale > 0
         /\ ml.groups[k].order.data.info.udtToCkb.ckbScale > 0
         /\ ml.groups[k].order.absTotal > 0
         /\ ~mlConsumed(ml.groups[k])

sqRunning == sq.phase \in {"run", "done"}

\* the order a partial of a yielded match was made from
sqSameOrder(p, q) == p.order.cell.outPoint = q.order.cell.outPoint

\* C16: in the sequence of matches sequentialMatcher yields, the number of
\* partials is strictly increasing from each yield to the next.
C16_PartialsStrictlyIncreasing ==
    sqRunning =>
        \A i \in 1..(Len(sq.yielded) - 1) :
            Len(sq.yielded[i].partials) < Len(sq.yielded[i + 1].partials)

\* C16 as the code has it: the number of partials never decreases, it grows
\* by exactly one when a yield is the first one of a matcher, and it stays
\* the same between two yields of the same matcher, where the last partial
\* is replaced by a larger one on the same order.
C16_PartialsNonDecreasing ==
    sqRunning =>
        /\ Len(sq.yielded[1].partials) = 0
        /\ \A i \in 1..(Len(sq.yielded) - 1) :
             LET p == sq.yielded[i].partials
                 n == sq.yielded[i + 1].partials
             IN  \/ /\ Len(n) = Len(p) + 1
                    /\ SubSeq(n, 1, Len(p)) = p
                    /\ \A k \in 1..Len(p) : ~sqSameOrder(p[k], n[Len(n)])
                 \/ /\ Len(n) = Len(p)
                    /\ Len(p) > 0
                    /\ SubSeq(n, 1, Len(p) - 1) = SubSeq(p, 1, Len(p) - 1)
                    /\ sqSameOrder(p[Len(p)], n[Len(n)])

\* two consecutive yields of one matcher, followed by the first yield of the
\* next matcher
C16_Witness ==
    /\ sqRunning
    /\ \E i \in 1..(Len(sq.yielded) - 2) :
         /\ Len(sq.yielded[i].partials) = 1
         /\ Len(sq.yielded[i + 1].partials) = 1
         /\ Len(sq.yielded[i + 2].partials) = 2

sqAbs(x) == IF x < 0 THEN -x ELSE x

\* |ckbDelta| + |udtDelta| of a match
sqSize(m) == sqAbs(m.ckbDelta) + sqAbs(m.udtDelta)

\* C17: in the sequence of matches sequentialMatcher yields,
\* |ckbDelta| + |udtDelta| never decreases from one yield to the next, also
\* from the last yield of a matcher to the first one of the next and across
\* abandoned matchers.
C17_DeltasNonDecreasing ==
    sqRunning =>
        \A i \in 1..(Len(sq.yielded) - 1) :
            sqSize(sq.yielded[i]) <= sqSize(sq.yielded[i + 1])

\* the matchers whose order is in no partial of the last yield
sqAbandoned ==
    {k \in 1..Len(sq.matchers) :
        \A j \in 1..Len(sq.yielded[Len(sq.yielded)].partials) :
            ~sqSameOrder(sq.yielded[Len(sq.yielded)].partials[j],
                         sq.matchers[k])}

\* the generator is exhausted with a positive mining fee, having yielded
\* for a matcher, abandoned the next one and yielded for the one after it
C17_Witness ==
    /\ sq.phase = "done"
    /\ sq.in.ckbMiningFee > 0
    /\ Len(sq.matchers) = 3
    /\ sqAbandoned = {2}
    /\ \E i \in 2..(Len(sq.yielded) - 1) :
         /\ Len(sq.yielded[i].partials) = 1
         /\ Len(sq.yielded[i + 1].partials) = 2
         /\ sqSize(sq.yielded[i]) < sqSize(sq.yielded[i + 1])


\* OrderMatcher.from and match have run on the order of capacity 1000,
\* ckbOccupied 100, udtAmount 0 and ckbToUdt = (1,1) with the given
\* ckbMinMatchLog, in the ckb->udt direction with no mining fee
moScenario(log) ==
    /\ mo.phase = "matched"
    /\ mo.order = moScenarioOrder(log)
    /\ mo.isCkb2Udt
    /\ mo.ckbMiningFee = 0

\* the match is one partial with the given outputs, and the given deltas
moFilled(m, ckbOut, udtOut, ckbDelta, udtDelta) ==
    /\ Len(m.partials) = 1
    /\ m.partials[1].ckbOut = ckbOut
    /\ m.partials[1].udtOut = udtOut
    /\ m.ckbDelta = ckbDelta
    /\ m.udtDelta = udtDelta

\* C18: the ckb->udt order with capacity 1000, ckbOccupied 100, udtAmount 0,
\* ckbToUdt = (1,1), ckbMinMatchLog 0, matched ckb->udt with no fee and an
\* allowance >= bMaxMatch fills to aOut = 100, bOut = 901, with
\* ckbDelta = 900 and udtDelta = -901.
C18_FullFill901 ==
    moScenario(0) =>
        /\ IsSome(mo.matcher)
        /\ IF IsSome(mo.matcher)
           THEN mo.bAllowance >= Get(mo.matcher).bMaxMatch
                  => moFilled(Get(mo.match), 100, 901, 900, -901)
           ELSE FALSE

\* C18 as the code has it: bMaxMatch is 900 and the fill is aOut = 100,
\* bOut = 900, with ckbDelta = 900 and udtDelta = -900.
C18_FullFill900 ==
    moScenario(0) =>
        /\ IsSome(mo.matcher)
        /\ IF IsSome(mo.matcher)
           THEN /\ Get(mo.matcher).bMaxMatch = 900
                /\ Get(mo.matcher).bMaxOut = 900
                /\ Get(mo.matcher).aMin = 100
                /\ mo.bAllowance >= Get(mo.matcher).bMaxMatch
                     => moFilled(Get(mo.match), 100, 900, 900, -900)
           ELSE FALSE

\* the scenario order matched with an allowance above bMaxMatch
C18_Witness ==
    /\ moScenario(0)
    /\ mo.bAllowance = 1000
    /\ IsSome(mo.match)

\* C19: the same order with ckbMinMatchLog 10: match with bAllowance 500
\* returns the empty match, and with bAllowance 600 a partial fill (one
\* partial, not a full fill) whose udtOut is 600.
C19_PartialAt600 ==
    moScenario(10) =>
        /\ IsSome(mo.match)
        /\ IF IsSome(mo.match)
           THEN /\ mo.bAllowance = 500 => Get(mo.match) = EmptyMatch
                /\ mo.bAllowance = 600 =>
                     /\ Len(Get(mo.match).partials) = 1
                     /\ Get(mo.match).partials[1].udtOut = 600
                     /\ Get(mo.match).partials[1].ckbOut > 100
           ELSE FALSE

\* C19 as the code has it: ckbMinMatch is 1024, so bMinMatch is clamped to
\* bMaxMatch = 900; match returns the empty match for bAllowance 500 and for
\* bAllowance 600, and the full fill from bAllowance 900 on: this order has
\* no partial fill.
C19_EmptyBelow900 ==
    moScenario(10) =>
        /\ IsSome(mo.matcher)
        /\ IF IsSome(mo.matcher)
           THEN /\ Get(mo.matcher).bMinMatch = 900
                /\ Get(mo.matcher).bMaxMatch = 900
                /\ mo.bAllowance < 900 => Get(mo.match) = EmptyMatch
                /\ mo.bAllowance >= 900
                     => moFilled(Get(mo.match), 100, 900, 900, -900)
           ELSE FALSE

\* the scenario order with ckbMinMatchLog 10 matched with bAllowance 600
C19_Witness ==
    /\ moScenario(10)
    /\ mo.bAllowance = 600
    /\ IsSome(mo.match)
    /\ Get(mo.match) = EmptyMatch

\* the outputs of the one partial of a match, named as the matcher names them
moOut(m) ==
    IF mo.isCkb2Udt
    THEN [aOut |-> m.partials[1].ckbOut, bOut |-> m.partials[1].udtOut]
    ELSE [aOut |-> m.partials[1].udtOut, bOut |-> m.partials[1].ckbOut]

\* the match is the full fill of the matcher
moFull(this, m) ==
    /\ Len(m.partials) = 1
    /\ moOut(m).aOut = this.aMin
    /\ moOut(m).bOut = this.bMaxOut

\* C20: for every constructed OrderMatcher and every bAllowance >= 0, match
\* returns the empty match iff bAllowance < bMinMatch, the full fill
\* (aOut = aMin, bOut = bMaxOut) iff bAllowance >= bMaxMatch, and otherwise
\* one partial with bOut = bIn + bAllowance; bMinMatch never exceeds
\* bMaxMatch, so an allowance >= bMaxMatch gives the full fill, never the
\* empty match.
C20_MatchCases ==
    (mo.phase = "matched" /\ IsSome(mo.matcher)) =>
        LET this == Get(mo.matcher)
            m == Get(mo.match)
        IN  /\ (m = EmptyMatch) <=> (mo.bAllowance < this.bMinMatch)
            /\ Len(m.partials) = 0 => m = EmptyMatch
            /\ Len(m.partials) <= 1
            /\ moFull(this, m) <=> (mo.bAllowance >= this.bMaxMatch)
            /\ (mo.bAllowance >= this.bMinMatch
                  /\ mo.bAllowance < this.bMaxMatch)
                 => /\ Len(m.partials) = 1
                    /\ moOut(m).bOut = this.bIn + mo.bAllowance
                    /\ moOut(m).aOut
                         = OrderMatcher_nonDecreasing(this.bScale, this.aScale,
                                                      this.bIn, this.aIn,
                                                      moOut(m).bOut)
            /\ this.bMinMatch <= this.bMaxMatch
            /\ mo.bAllowance >= this.bMaxMatch => m # EmptyMatch

\* a partial fill strictly between the empty match and the full fill
C20_Witness ==
    /\ mo.phase = "matched"
    /\ IsSome(mo.matcher)
    /\ mo.bAllowance >= Get(mo.matcher).bMinMatch
    /\ mo.bAllowance < Get(mo.matcher).bMaxMatch
    /\ Len(Get(mo.match).partials) = 1
    /\ ~moFull(Get(mo.matcher), Get(mo.match))


\* the search loop of bestMatch has run a round and is about to be left
bmLeaving ==
    /\ bm.phase = "loop"
    /\ bm.rounds > 0
    /\ ~bestMatch_continues(bm.best)

\* C21: the search loop of bestMatch is left only after a round in which
\* both chosen indices are zero; after a round whose best pair has i > 0 and
\* j = 0, or i = 0 and j > 0, another round is run.
C21_LoopEndsWhenBothZero ==
    bmLeaving => (bm.best.i = 0 /\ bm.best.j = 0)


\* the partition sequentialMatcher makes for matcher k of the generator
sqPartition(k) ==
    sequentialMatcher_partition(sq.matchers[k].bMaxMatch, sq.in.allowanceStep)

\* C22: in sequentialMatcher, for every matcher with
\* bMaxMatch >= allowanceStep >= 1, every chunk of the partition of
\* bMaxMatch (q + 1 or q) is at least allowanceStep in size.
C22_ChunksAtLeastStep ==
    sqRunning =>
        \A k \in 1..Len(sq.matchers) :
            sq.matchers[k].bMaxMatch >= sq.in.allowanceStep =>
                \A i \in 0..(sqPartition(k).N - 1) :
                    sequentialMatcher_chunk(sqPartition(k).q, sqPartition(k).r, i)
                      >= sq.in.allowanceStep


\* the cumulative allowance after the steps i..N-1 of the inner loop,
\* starting from allowance
RECURSIVE sqAllowanceAfter(_, _, _)
sqAllowanceAfter(p, i, allowance) ==
    IF ~(i < p.N) THEN allowance
    ELSE sqAllowanceAfter(p, i + 1,
                          allowance + sequentialMatcher_chunk(p.q, p.r, i))

\* the partial is the full fill of the matcher of its order
sqFullFill(partial) ==
    \E k \in 1..Len(sq.matchers) :
        /\ sqSameOrder(partial, sq.matchers[k])
        /\ IF sq.matchers[k].isCkb2Udt
           THEN /\ partial.ckbOut = sq.matchers[k].aMin
                /\ partial.udtOut = sq.matchers[k].bMaxOut
           ELSE /\ partial.udtOut = sq.matchers[k].aMin
                /\ partial.ckbOut = sq.matchers[k].bMaxOut

\* yield number i is the last one its matcher contributes
sqLastOfMatcher(i) ==
    /\ Len(sq.yielded[i].partials) > 0
    /\ IF i < Len(sq.yielded)
       THEN Len(sq.yielded[i + 1].partials) > Len(sq.yielded[i].partials)
       ELSE sq.phase = "done"

\* C23: in sequentialMatcher, for every matcher and allowanceStep >= 1, the
\* N = ceil(bMaxMatch / allowanceStep) chunks differ by at most 1 and sum to
\* bMaxMatch, so the last yield a non-abandoned matcher contributes is its
\* full fill (aOut = aMin, bOut = bMaxOut), which is the baseline of all
\* later matchers.
C23_FairPartitionEndsInFullFill ==
    sqRunning =>
        /\ \A k \in 1..Len(sq.matchers) :
             LET p == sqPartition(k)
             IN  /\ p.N * sq.in.allowanceStep >= sq.matchers[k].bMaxMatch
                 /\ (p.N - 1) * sq.in.allowanceStep < sq.matchers[k].bMaxMatch
                 /\ \A i, j \in 0..(p.N - 1) :
                      sequentialMatcher_chunk(p.q, p.r, i)
                        - sequentialMatcher_chunk(p.q, p.r, j) \in {-1, 0, 1}
                 /\ sqAllowanceAfter(p, 0, 0) = sq.matchers[k].bMaxMatch
        /\ \A i \in 1..Len(sq.yielded) :
             /\ \A j \in 1..(Len(sq.yielded[i].partials) - 1) :
                  sqFullFill(sq.yielded[i].partials[j])
             /\ sqLastOfMatcher(i) =>
                  sqFullFill(sq.yielded[i].partials[Len(sq.yielded[i].partials)])

\* the generator is exhausted after two matchers have contributed, one of
\* them with chunks of two different sizes
C23_Witness ==
    /\ sq.phase = "done"
    /\ Len(sq.yielded[Len(sq.yielded)].partials) = 2
    /\ \E k \in 1..Len(sq.matchers) :
         /\ sqPartition(k).N >= 2
         /\ sqPartition(k).r > 0
         /\ \E j \in 1..2 :
              sqSameOrder(sq.yielded[Len(sq.yielded)].partials[j],
                          sq.matchers[k])


\* bMinMatch as OrderMatcher.from computes it, before it is clamped
moRawMinMatch ==
    OrderMatcher_fromLocals(mo.order, mo.isCkb2Udt, mo.ckbMiningFee).bMinMatch

\* C24: in the ckb->udt direction OrderMatcher.from sets bMinMatch, before
\* clamping, to the least UDT amount b with
\* udtScale * b >= ckbScale * 2^ckbMinMatchLog, the CKB minimum converted at
\* the order's ckbToUdt ratio; in the udt->ckb direction to
\* 2^ckbMinMatchLog.
C24_MinMatchConverted ==
    (mo.phase = "matched" /\ IsSome(mo.matcher)) =>
        LET r == mo.order.data.info.ckbToUdt
            ckbMinMatch == 2 ^ mo.order.data.info.ckbMinMatchLog
        IN  IF mo.isCkb2Udt
            THEN /\ r.udtScale * moRawMinMatch >= r.ckbScale * ckbMinMatch
                 /\ r.udtScale * (moRawMinMatch - 1) < r.ckbScale * ckbMinMatch
            ELSE moRawMinMatch = ckbMinMatch


flRunning == fl.phase \in {"grouping", "awaiting", "done"}

\* the simple orders that name the master outpoint
flReferencing(master) ==
    {n \in 1..Len(fl.simpleOrders) : namedMaster(fl.simpleOrders[n]) = master}

\* what the generator yields when each lookup runs to its end alone
RECURSIVE flSequential(_)
flSequential(k) ==
    IF k > Len(fl.allMasters) THEN <<>>
    ELSE findOrders_group(fl.chain, fl.allMasters[k],
                          rawGroup_orders(fl.simpleOrders, fl.allMasters[k]))
           \o flSequential(k + 1)

\* C25: for any on-chain cells and any completion order of the concurrent
\* origin lookups, findOrders starts at most one origin lookup per master
\* outpoint, however many orders name it, yields at most one group per
\* master cell, and yields nothing for a master cell that no discovered
\* order names; what it yields does not depend on the completion order.
C25_OneLookupAndOneGroupPerMaster ==
    flRunning =>
        /\ \A a, b \in 1..Len(fl.lookups) :
             fl.lookups[a].master = fl.lookups[b].master => a = b
        /\ \A a, b \in 1..Len(fl.yielded) :
             fl.yielded[a].master.outPoint = fl.yielded[b].master.outPoint
               => a = b
        /\ \A a \in 1..Len(fl.yielded) :
             flReferencing(fl.yielded[a].master.outPoint) # {}
        /\ fl.phase = "done" => fl.yielded = flSequential(1)

\* findOrders has returned after two lookups that ended in the order
\* opposite to the one they were started in, one of them for a master that
\* two orders name; a third master cell, which no order names, gave nothing
C25_Witness ==
    /\ fl.phase = "done"
    /\ fl.completed = <<2, 1>>
    /\ \E l \in 1..2 : Cardinality(flReferencing(fl.lookups[l].master)) >= 2
    /\ Len(fl.yielded) >= 1
    /\ \E g \in 1..Len(fl.allMasters) :
         flReferencing(fl.allMasters[g].outPoint) = {}


\* C26: for every constructed OrderMatcher and every allowance, each
\* partial match returns leaves ckbOut >= the occupied capacity of the order
\* and udtOut >= 0; a partial fill, bMinMatch <= bAllowance < bMaxMatch,
\* leaves aOut > aMin, so only the full fill has aOut = aMin, and the
\* numerator of the nonDecreasing that gives aOut is never negative.
C26_PartialKeepsCellValid ==
    (mo.phase = "matched" /\ IsSome(mo.matcher)) =>
        LET this == Get(mo.matcher)
            m == Get(mo.match)
        IN  /\ \A k \in 1..Len(m.partials) :
                 /\ m.partials[k].ckbOut >= mo.order.ckbOccupied
                 /\ m.partials[k].udtOut >= 0
            /\ (mo.bAllowance >= this.bMinMatch
                  /\ mo.bAllowance < this.bMaxMatch)
                 => /\ Len(m.partials) = 1
                    /\ moOut(m).aOut > this.aMin
                    /\ this.bScale * (this.bIn - moOut(m).bOut)
                         + this.aScale * (this.aIn + 1) - 1 >= 0
            /\ (Len(m.partials) = 1 /\ moOut(m).aOut = this.aMin)
                 => mo.bAllowance >= this.bMaxMatch

\* a partial fill in the udt->ckb direction that stays above its minimum
C26_Witness ==
    /\ mo.phase = "matched"
    /\ IsSome(mo.matcher)
    /\ ~mo.isCkb2Udt
    /\ mo.bAllowance >= Get(mo.matcher).bMinMatch
    /\ mo.bAllowance < Get(mo.matcher).bMaxMatch
    /\ Len(Get(mo.match).partials) = 1
    /\ Get(mo.match).partials[1].udtOut > 0
    /\ Get(mo.match).partials[1].ckbOut > mo.order.cell.capacity


\* the number of chunks of the matchers k.. for the given allowanceStep
RECURSIVE tmChunks(_, _, _)
tmChunks(matchers, allowanceStep, k) ==
    IF k > Len(matchers) THEN 0
    ELSE sequentialMatcher_partition(matchers[k].bMaxMatch, allowanceStep).N
           + tmChunks(matchers, allowanceStep, k + 1)

\* every matcher has something to partition
tmMatchersOk(matchers) ==
    \A k \in 1..Len(matchers) : matchers[k].bMaxMatch >= 1

\* the allowanceStep bestMatch gives the generator of a direction
tmStep(isCkb2Udt) ==
    IF isCkb2Udt THEN bm.in.ckbAllowanceStep
    ELSE bestMatch_udtAllowanceStep(bm.in.ckbAllowanceStep, bm.in.exchangeRate)

tmMatchers(isCkb2Udt) ==
    sequentialMatcher_matchers(bm.in.orderPool, isCkb2Udt, bm.ckbMiningFee)

tmYields(isCkb2Udt) ==
    OrderManager_sequentialMatcher(bm.in.orderPool, isCkb2Udt,
                                   tmStep(isCkb2Udt), bm.ckbMiningFee)

\* the generator of sequentialMatcher yields no more than the empty match
\* and one match per chunk
tmSeqBounded ==
    sqRunning =>
        /\ tmMatchersOk(sq.matchers)
        /\ \A k \in 1..Len(sq.matchers) : sqPartition(k).N >= 1
        /\ Len(sq.yielded) + Len(sq.rest)
             <= 1 + tmChunks(sq.matchers, sq.in.allowanceStep, 1)

\* bestMatch runs no more rounds than the shorter of its two streams yields
tmBestBounded ==
    bm.phase \in {"loop", "done"} =>
        /\ \A d \in BOOLEAN :
             /\ tmMatchersOk(tmMatchers(d))
             /\ Len(tmYields(d)) <= 1 + tmChunks(tmMatchers(d), tmStep(d), 1)
        /\ \A d \in BOOLEAN : bm.rounds <= Len(tmYields(d))

tmEnded ==
    \/ bm.phase \in {"done", "threw"}
    \/ sq.phase \in {"done", "threw"}

\* C27: for every finite pool of valid orders, allowance steps >= 1 and
\* mining fee >= 0, every constructed matcher has bMaxMatch >= 1, so that
\* N >= 1 and the chunk division never divides by zero, sequentialMatcher
\* yields finitely many matches, and the search loop of bestMatch ends after
\* finitely many rounds.
C27_MatchingTerminates ==
    (bm.phase = "loop" \/ sq.phase = "run")
      ~> (tmEnded /\ tmSeqBounded /\ tmBestBounded)

\* bestMatch has returned after two rounds of its search loop, with
\* matchers in both directions
C27_Witness ==
    /\ bm.phase = "done"
    /\ bm.rounds >= 2
    /\ Len(tmMatchers(TRUE)) >= 1
    /\ Len(tmMatchers(FALSE)) >= 1
    /\ Len(tmYields(TRUE)) >= 3

=============================================================================
